---- MODULE Spec2Model ----
(***************************************************************************)
(* LevelTalk: dialog generation, synthesis and persistence.                *)
(*                                                                         *)
(* Go strings are modelled as sequences of characters (one-character TLA+  *)
(* strings), so that trimming, splitting and case folding are computed.    *)
(***************************************************************************)
EXTENDS Integers, Sequences, FiniteSets, TLC

VARIABLES
    raw,            \* parseWords: the raw form value
    words,          \* parseWords: the returned slice
    parsed,         \* parseWords: TRUE once parseWords has returned
    second,         \* parseWords: a second call on the same raw value
    dialogs,        \* PostgreSQL: the committed rows of table dialogs
    dialog_turns,   \* PostgreSQL: the committed rows of table dialog_turns
    tx,             \* PostgreSQL: per caller, the rows its open transaction wrote
    pc,             \* per caller: where its CreateDialog / Create call stands
    call,           \* per caller: the locals of the call in progress
    result,         \* per caller: what its last call returned
    reader,         \* the read handler: its position and its last response
    synth,          \* SynthesizeDialog called on its own: the turn loop
    gen,            \* GenerateDialog called on its own: the reply and the result
    ping,           \* pingDB at startup: the attempt loop
    created         \* history: per dialog id, the Go value Create stored

wordVars == <<raw, words, parsed, second>>

storeVars == <<dialogs, dialog_turns, tx, created>>

callVars == <<pc, call, result>>

clientVars == <<synth, gen, ping>>

vars == <<raw, words, parsed, second, dialogs, dialog_turns, tx, pc, call, result,
          reader, synth, gen, ping, created>>

(***************************************************************************)
(* Strings                                                                 *)
(***************************************************************************)

\* unicode.IsSpace, restricted to the characters the model's alphabets use.
WhiteSpace == {" ", "\t", "\n", "\r"}

\* strings.Contains(s, c) for a one-character c.
Contains(s, c) == \E i \in 1..Len(s) : s[i] = c

\* strings.TrimSpace: drop leading, then trailing, white space.
RECURSIVE TrimLeft(_)
TrimLeft(s) ==
    IF s # <<>> /\ Head(s) \in WhiteSpace THEN TrimLeft(Tail(s)) ELSE s

RECURSIVE TrimRight(_)
TrimRight(s) ==
    IF s # <<>> /\ s[Len(s)] \in WhiteSpace
    THEN TrimRight(SubSeq(s, 1, Len(s) - 1))
    ELSE s

TrimSpace(s) == TrimRight(TrimLeft(s))

\* strings.FieldsFunc(s, f) with f(r) == r \in seps: the maximal runs of
\* characters outside seps, in order; empty runs are not returned.
FieldsFunc(s, seps) ==
    LET RECURSIVE Scan(_, _, _)
        Scan(i, cur, acc) ==
            IF i > Len(s)
            THEN IF cur = <<>> THEN acc ELSE Append(acc, cur)
            ELSE IF s[i] \in seps
                 THEN Scan(i + 1, <<>>, IF cur = <<>> THEN acc ELSE Append(acc, cur))
                 ELSE Scan(i + 1, Append(cur, s[i]), acc)
    IN Scan(1, <<>>, <<>>)

\* strings.Fields(s): FieldsFunc with unicode.IsSpace.
Fields(s) == FieldsFunc(s, WhiteSpace)

(***************************************************************************)
(* internal/http/server.go: parseWords                                     *)
(***************************************************************************)

\* The separators of the comma branch: r == ',' || r == '\n' || r == '\r'.
CommaSeparators == {",", "\n", "\r"}

\* A plausible slip: the fields are kept without trimming.
RECURSIVE TrimmedNonEmptyNoTrim(_)
TrimmedNonEmptyNoTrim(fields) ==
    IF fields = <<>> THEN <<>>
    ELSE IF Head(fields) # <<>>
         THEN <<Head(fields)>> \o TrimmedNonEmptyNoTrim(Tail(fields))
         ELSE TrimmedNonEmptyNoTrim(Tail(fields))

\* The loop shared by both branches: trim each field, keep the non-empty ones.
RECURSIVE TrimmedNonEmpty(_)
TrimmedNonEmpty(fields) ==
    IF fields = <<>> THEN <<>>
    ELSE LET trimmed == TrimSpace(Head(fields))
         IN IF trimmed # <<>>
            THEN <<trimmed>> \o TrimmedNonEmpty(Tail(fields))
            ELSE TrimmedNonEmpty(Tail(fields))

\* A plausible slip: result is a slice kept between calls, not a fresh one.
parseWordsKeepingResult(r) ==
    words \o (IF Contains(r, ",")
              THEN TrimmedNonEmpty(FieldsFunc(r, CommaSeparators))
              ELSE TrimmedNonEmpty(Fields(r)))

parseWords(r) ==
    IF Contains(r, ",")
    THEN TrimmedNonEmpty(FieldsFunc(r, CommaSeparators))
    ELSE TrimmedNonEmpty(Fields(r))

(***************************************************************************)
(* internal/dialogs: the domain types                                      *)
(*                                                                         *)
(* A uuid.UUID is an integer, uuid.Nil is 0.  A time.Time is an integer.   *)
(* A nil slice and an empty slice are both <<>>, a nil map and an empty    *)
(* map are both the empty function.                                        *)
(***************************************************************************)

NilUUID == 0

\* A byte that is not part of any valid UTF-8 sequence, and U+FFFD.
InvalidByte == "\\xff"
ReplacementChar == "\\ufffd"

\* Dialog{}
EmptyDialog ==
    [ID |-> NilUUID, Title |-> <<>>, InputLanguage |-> <<>>,
     DialogLanguage |-> <<>>, CEFRLevel |-> <<>>, InputWords |-> <<>>,
     Translations |-> <<>>, Turns |-> <<>>, CreatedAt |-> 0]

DialogTurn(id, speaker, text, audioURL, position) ==
    [ID |-> id, Speaker |-> speaker, Text |-> text, AudioURL |-> audioURL,
     Position |-> position]

\* A *string of DialogFilter: nil, or a pointer to v.
NilString == [present |-> FALSE, v |-> <<>>]
StringPtr(v) == [present |-> TRUE, v |-> v]

(***************************************************************************)
(* encoding/json as the repository uses it                                 *)
(***************************************************************************)

\* json.Marshal writes a string coerced to valid UTF-8: every invalid byte
\* becomes U+FFFD.
CoerceUTF8(s) ==
    [i \in 1..Len(s) |-> IF s[i] = InvalidByte THEN ReplacementChar ELSE s[i]]

\* A plausible slip: the bytes are written as they are.
MarshalWordsRaw(ws) == ws

\* json.Marshal(dlg.InputWords): a JSON array of strings.
MarshalWords(ws) == [i \in 1..Len(ws) |-> CoerceUTF8(ws[i])]

\* json.Marshal(dlg.Turns): a JSON array of objects, one per turn, the fields
\* under their Go names (DialogTurn has no json tags).
MarshalTurns(turns) ==
    [i \in 1..Len(turns) |->
        [ID |-> turns[i].ID,
         Speaker |-> CoerceUTF8(turns[i].Speaker),
         Text |-> CoerceUTF8(turns[i].Text),
         AudioURL |-> CoerceUTF8(turns[i].AudioURL),
         Position |-> turns[i].Position]]

\* json.Marshal(dlg.Translations): a JSON object; keys and values are coerced.
MarshalTranslations(m) ==
    [k \in {CoerceUTF8(w) : w \in DOMAIN m} |->
        CoerceUTF8(m[CHOOSE w \in DOMAIN m : CoerceUTF8(w) = k])]

\* json.Unmarshal of a stored document into []string, []DialogTurn and
\* map[string]string: the document's own values.
UnmarshalWords(doc) == doc
UnmarshalTurns(doc) == doc
UnmarshalTranslations(doc) == doc

(***************************************************************************)
(* migrations/001_init.sql and the rows DialogRepository.Create writes     *)
(***************************************************************************)

LevelA1 == <<"A1">>
LevelA2 == <<"A2">>
LevelB1 == <<"B1">>
LevelB2 == <<"B2">>
LevelC1 == <<"C1">>
LevelC2 == <<"C2">>

\* CHECK (cefr_level IN ('A1','A2','B1','B2','C1','C2'))
CEFRLevels == {LevelA1, LevelA2, LevelB1, LevelB2, LevelC1, LevelC2}

\* A TEXT value must be valid in the database encoding (UTF8).
ValidUTF8(s) == \A i \in 1..Len(s) : s[i] # InvalidByte

\* The arguments of insertDialog.
DialogRow(dlg) ==
    [id |-> dlg.ID,
     input_language |-> dlg.InputLanguage,
     dialog_language |-> dlg.DialogLanguage,
     cefr_level |-> dlg.CEFRLevel,
     input_words |-> MarshalWords(dlg.InputWords),
     dialog_json |-> MarshalTurns(dlg.Turns),
     translations |-> MarshalTranslations(dlg.Translations),
     created_at |-> dlg.CreatedAt]

\* The arguments of insertTurn.
TurnRow(dlg, turn) ==
    [id |-> turn.ID,
     dialog_id |-> dlg.ID,
     speaker |-> turn.Speaker,
     text |-> turn.Text,
     audio_url |-> turn.AudioURL,
     position |-> turn.Position]

\* A plausible slip: the table has no CHECK on cefr_level.
DialogInsertAcceptedNoCheck(row, seen) ==
    /\ row.id \notin {r.id : r \in seen}
    /\ ValidUTF8(row.input_language)
    /\ ValidUTF8(row.dialog_language)

\* INSERT INTO dialogs succeeds on the rows `seen` when the primary key is
\* new, the CHECK holds and the TEXT columns are valid.
DialogInsertAccepted(row, seen) ==
    /\ row.id \notin {r.id : r \in seen}
    /\ row.cefr_level \in CEFRLevels
    /\ ValidUTF8(row.input_language)
    /\ ValidUTF8(row.dialog_language)

\* INSERT INTO dialog_turns succeeds when the primary key is new, the dialog
\* exists, (dialog_id, position) is new and the TEXT columns are valid.
TurnInsertAccepted(row, seenTurns, seenDialogs) ==
    /\ row.id \notin {r.id : r \in seenTurns}
    /\ row.dialog_id \in {d.id : d \in seenDialogs}
    /\ ~\E r \in seenTurns :
            r.dialog_id = row.dialog_id /\ r.position = row.position
    /\ ValidUTF8(row.speaker)
    /\ ValidUTF8(row.text)
    /\ ValidUTF8(row.audio_url)

(***************************************************************************)
(* Callers, errors and the transaction of one Create call                  *)
(*                                                                         *)
(* An error is the chain of messages fmt.Errorf("...: %w") builds, the     *)
(* outermost first; nil is <<>>.                                           *)
(***************************************************************************)

\* The goroutines that serve requests at the same time.
Procs == {"p1", "p2"}

NoError == <<>>
ErrNotFound == "dialog not found"
ErrInvalidInput == "invalid dialog input"

\* errors.Is(err, target)
ErrorIs(err, target) == \E i \in 1..Len(err) : err[i] = target

\* CreateDialogInput{}
NoInput ==
    [InputLanguage |-> <<>>, DialogLanguage |-> <<>>, CEFRLevel |-> <<>>,
     InputWords |-> <<>>]

IdleCall ==
    [via |-> "none", input |-> NoInput, dlg |-> EmptyDialog, k |-> 0,
     stmts |-> <<>>, log |-> <<>>, llm |-> "none", tts |-> "none",
     requests |-> <<>>, generated |-> <<>>]

StatusOK == 200
StatusBadRequest == 400
StatusNotFound == 404
StatusInternalServerError == 500

\* No HTTP response: the call was not made through the handler.
NoResponse == [status |-> 0, body |-> <<>>]

\* A plausible slip: the body carries the error's text.
serverErrorWithText(err) ==
    [status |-> StatusInternalServerError, body |-> err \o <<"\n">>]

\* serverError: the error goes to the log, http.Error writes a fixed line.
serverError(err) ==
    [status |-> StatusInternalServerError,
     body |-> <<"internal server error", "\n">>]

\* renderDialogList has rendered the list of dialogs.
DialogListResponse == [status |-> StatusOK, body |-> <<"dialog list">>]

\* What handleCreateDialog answers once CreateDialog has returned err: the
\* error page, or the dialog list, whose own search can fail.
handleCreateDialog(err) ==
    IF err # NoError THEN {serverError(err)}
    ELSE {DialogListResponse, serverError(<<"search dialogs">>)}

NoResult ==
    [via |-> "none", err |-> NoError, dlg |-> EmptyDialog, arg |-> EmptyDialog,
     input |-> NoInput, stmts |-> <<>>, log |-> <<>>, llm |-> "none",
     tts |-> "none", requests |-> <<>>, http |-> NoResponse]

NoTx == [open |-> FALSE, dialogs |-> {}, turns |-> {}]

Statement(op, arg) == [op |-> op, arg |-> arg]

\* The rows caller p's statements see: the committed ones and its own.
SeenDialogs(p) == dialogs \cup tx[p].dialogs
SeenTurns(p) == dialog_turns \cup tx[p].turns

\* An INSERT waits while another open transaction holds a row with its key.
DialogInsertWaits(p, row) ==
    \E q \in Procs \ {p} : \E r \in tx[q].dialogs : r.id = row.id

TurnInsertWaits(p, row) ==
    \E q \in Procs \ {p} : \E r \in tx[q].turns :
        \/ r.id = row.id
        \/ r.dialog_id = row.dialog_id /\ r.position = row.position

\* A plausible slip: the statements run on r.db, outside the transaction, so
\* the deferred Rollback undoes nothing.
RolledBackNothing(table, written) == table \cup written

\* defer tx.Rollback(): the rows the transaction wrote are discarded.
RolledBack(table, written) == table

\* A plausible slip: the commit leaves only the rows just written.
CommittedReplacing(table, written) == written

\* tx.Commit(): the rows the transaction wrote become visible.
Committed(table, written) == table \cup written

\* What CreateDialog returns once repo.Create has returned err: the dialog, or
\* Dialog{} and the wrapped error.  A direct caller of Create gets err.
ReturnFromCreate(p, err, stmts) ==
    LET viaService == call[p].via = "service"
        log == IF viaService
               THEN Append(call[p].log, IF err = NoError THEN "create ok" ELSE "create failed")
               ELSE call[p].log
        returned == IF viaService /\ err # NoError
                    THEN <<"persist dialog">> \o err ELSE err
        responses == IF viaService THEN handleCreateDialog(returned)
                     ELSE {NoResponse}
    IN /\ pc' = [pc EXCEPT ![p] = "idle"]
       /\ call' = [call EXCEPT ![p] = IdleCall]
       /\ \E response \in responses : result' = [result EXCEPT ![p] =
              [via |-> call[p].via,
               http |-> response,
               err |-> returned,
               dlg |-> IF viaService /\ err = NoError THEN call[p].dlg
                       ELSE EmptyDialog,
               arg |-> call[p].dlg,
               input |-> call[p].input,
               stmts |-> stmts,
               log |-> log,
               llm |-> call[p].llm,
               tts |-> call[p].tts,
               requests |-> call[p].requests]]

(***************************************************************************)
(* storage: DialogRepository.Create                                        *)
(***************************************************************************)

\* A direct call of Create, as the repository's test makes it.
RepoCreate(p, dlg) ==
    /\ pc[p] = "idle"
    /\ pc' = [pc EXCEPT ![p] = "begin"]
    /\ call' = [call EXCEPT ![p] = [IdleCall EXCEPT !.via = "repo", !.dlg = dlg]]
    /\ result' = [result EXCEPT ![p] = NoResult]
    /\ UNCHANGED <<storeVars, reader, wordVars, clientVars>>

\* r.db.BeginTx succeeds.
BeginTx(p) ==
    /\ pc[p] = "begin"
    /\ tx' = [tx EXCEPT ![p] = [NoTx EXCEPT !.open = TRUE]]
    /\ pc' = [pc EXCEPT ![p] = "insertDialog"]
    /\ call' = [call EXCEPT ![p].stmts = Append(@, Statement("begin", 0))]
    /\ UNCHANGED <<result, dialogs, dialog_turns, created, reader, wordVars, clientVars>>

\* r.db.BeginTx fails: "begin tx".
BeginTxFails(p) ==
    /\ pc[p] = "begin"
    /\ ReturnFromCreate(p, <<"begin tx">>, call[p].stmts)
    /\ UNCHANGED <<storeVars, reader, wordVars, clientVars>>

\* insertDialog succeeds; the turn loop starts.
InsertDialog(p) ==
    LET row == DialogRow(call[p].dlg) IN
    /\ pc[p] = "insertDialog"
    /\ ~DialogInsertWaits(p, row)
    /\ DialogInsertAccepted(row, SeenDialogs(p))
    /\ tx' = [tx EXCEPT ![p].dialogs = @ \cup {row}]
    /\ pc' = [pc EXCEPT ![p] =
                IF Len(call[p].dlg.Turns) = 0 THEN "commit" ELSE "insertTurn"]
    /\ call' = [call EXCEPT ![p].k = 1,
                            ![p].stmts = Append(@, Statement("insert dialog", 0))]
    /\ UNCHANGED <<result, dialogs, dialog_turns, created, reader, wordVars, clientVars>>

\* insertDialog fails (a constraint, the connection, the context):
\* "insert dialog", after the deferred Rollback.
InsertDialogFails(p) ==
    /\ pc[p] = "insertDialog"
    /\ ~DialogInsertWaits(p, DialogRow(call[p].dlg))
    /\ dialogs' = RolledBack(dialogs, tx[p].dialogs)
    /\ dialog_turns' = RolledBack(dialog_turns, tx[p].turns)
    /\ tx' = [tx EXCEPT ![p] = NoTx]
    /\ ReturnFromCreate(p, <<"insert dialog">>, call[p].stmts)
    /\ UNCHANGED <<created, reader, wordVars, clientVars>>

\* insertTurn succeeds for turn k of the loop.
InsertTurn(p) ==
    LET dlg == call[p].dlg
        k == call[p].k
        row == TurnRow(dlg, dlg.Turns[k])
    IN
    /\ pc[p] = "insertTurn"
    /\ ~TurnInsertWaits(p, row)
    /\ TurnInsertAccepted(row, SeenTurns(p), SeenDialogs(p))
    /\ tx' = [tx EXCEPT ![p].turns = @ \cup {row}]
    /\ pc' = [pc EXCEPT ![p] = IF k = Len(dlg.Turns) THEN "commit" ELSE "insertTurn"]
    /\ call' = [call EXCEPT ![p].k = k + 1,
                            ![p].stmts = Append(@, Statement("insert turn", k - 1))]
    /\ UNCHANGED <<result, dialogs, dialog_turns, created, reader, wordVars, clientVars>>

\* insertTurn fails for turn k: "insert turn", after the deferred Rollback.
InsertTurnFails(p) ==
    LET dlg == call[p].dlg IN
    /\ pc[p] = "insertTurn"
    /\ ~TurnInsertWaits(p, TurnRow(dlg, dlg.Turns[call[p].k]))
    /\ dialogs' = RolledBack(dialogs, tx[p].dialogs)
    /\ dialog_turns' = RolledBack(dialog_turns, tx[p].turns)
    /\ tx' = [tx EXCEPT ![p] = NoTx]
    /\ ReturnFromCreate(p, <<"insert turn">>, call[p].stmts)
    /\ UNCHANGED <<created, reader, wordVars, clientVars>>

\* tx.Commit succeeds: Create returns nil.
CommitTx(p) ==
    /\ pc[p] = "commit"
    /\ dialogs' = Committed(dialogs, tx[p].dialogs)
    /\ dialog_turns' = Committed(dialog_turns, tx[p].turns)
    /\ tx' = [tx EXCEPT ![p] = NoTx]
    /\ created' = (call[p].dlg.ID :> call[p].dlg) @@ created
    /\ ReturnFromCreate(p, NoError, Append(call[p].stmts, Statement("commit", 0)))
    /\ UNCHANGED <<reader, wordVars, clientVars>>

\* tx.Commit fails: "commit tx"; the transaction is rolled back.
CommitTxFails(p) ==
    /\ pc[p] = "commit"
    /\ dialogs' = RolledBack(dialogs, tx[p].dialogs)
    /\ dialog_turns' = RolledBack(dialog_turns, tx[p].turns)
    /\ tx' = [tx EXCEPT ![p] = NoTx]
    /\ ReturnFromCreate(p, <<"commit tx">>, call[p].stmts)
    /\ UNCHANGED <<created, reader, wordVars, clientVars>>

(***************************************************************************)
(* storage: DialogRepository.GetByID, behind Service.GetDialog and         *)
(* Server.handleDetail                                                     *)
(***************************************************************************)

\* DialogFilter{}
NoFilter ==
    [InputLanguage |-> NilString, DialogLanguage |-> NilString,
     CEFRLevel |-> NilString, Limit |-> 0, Offset |-> 0]

\* The id path parameter when uuid.Parse rejects it.
BadIDParam == -1

IdleReader ==
    [pc |-> "idle", op |-> "none", id |-> NilUUID, filter |-> NoFilter,
     err |-> NoError, dlg |-> EmptyDialog, list |-> <<>>, status |-> 0]

\* rows.Scan of queryDialog, then the two json.Unmarshal calls.
ScanDialog(row) ==
    [EmptyDialog EXCEPT
        !.ID = row.id,
        !.InputLanguage = row.input_language,
        !.DialogLanguage = row.dialog_language,
        !.CEFRLevel = row.cefr_level,
        !.InputWords = UnmarshalWords(row.input_words),
        !.Translations = UnmarshalTranslations(row.translations),
        !.CreatedAt = row.created_at]

\* rows.Scan of queryTurns.
ScanTurn(row) ==
    DialogTurn(row.id, row.speaker, row.text, row.audio_url, row.position)

\* A plausible slip: the turn rows come back in no particular order.
RECURSIVE TurnsUnordered(_)
TurnsUnordered(rows) ==
    IF rows = {} THEN <<>>
    ELSE LET last == CHOOSE r \in rows : \A q \in rows : q.position <= r.position
         IN <<ScanTurn(last)>> \o TurnsUnordered(rows \ {last})

\* SELECT ... FROM dialog_turns WHERE dialog_id = $1 ORDER BY position ASC,
\* scanned row by row ((dialog_id, position) is unique).
RECURSIVE TurnsByPosition(_)
TurnsByPosition(rows) ==
    IF rows = {} THEN <<>>
    ELSE LET first == CHOOSE r \in rows : \A q \in rows : r.position <= q.position
         IN <<ScanTurn(first)>> \o TurnsByPosition(rows \ {first})

\* A plausible slip: every lookup failure is answered alike.
DetailStatusAlways500(err) ==
    IF err = NoError THEN StatusOK ELSE StatusInternalServerError

\* handleDetail after GetDialog: errors.Is(err, dialogs.ErrNotFound) gives 404,
\* any other error 500 (serverError), no error the rendered page.
DetailStatus(err) ==
    IF err = NoError THEN StatusOK
    ELSE IF ErrorIs(err, ErrNotFound) THEN StatusNotFound
    ELSE StatusInternalServerError

\* Service.GetDialog returns (Dialog{}, err) or (dlg, nil); handleDetail
\* answers.
DetailResponse(id, err, dlg) ==
    [IdleReader EXCEPT !.op = "detail", !.id = id, !.err = err, !.dlg = dlg,
                       !.status = DetailStatus(err)]

\* The handler has written its answer and returned; the next request can come.
Respond ==
    /\ reader.pc = "idle"
    /\ reader.op # "none"
    /\ reader' = IdleReader
    /\ UNCHANGED <<storeVars, callVars, wordVars, clientVars>>

\* uuid.Parse fails: 400.
DetailBadID ==
    /\ reader = IdleReader
    /\ reader' = [IdleReader EXCEPT !.op = "detail", !.id = BadIDParam,
                                    !.err = <<"invalid UUID">>,
                                    !.status = StatusBadRequest]
    /\ UNCHANGED <<storeVars, callVars, wordVars, clientVars>>

\* queryDialog fails with something else than sql.ErrNoRows: 500.
DetailSelectFails(id) ==
    /\ reader = IdleReader
    /\ reader' = DetailResponse(id, <<"select dialog">>, EmptyDialog)
    /\ UNCHANGED <<storeVars, callVars, wordVars, clientVars>>

\* The rows other transactions wrote and have not committed.
PendingDialogs == UNION {tx[p].dialogs : p \in Procs}
PendingTurns == UNION {tx[p].turns : p \in Procs}

\* A plausible slip: the statement sees rows of open transactions.
ReadUncommitted(table, pending) == table \cup pending

\* The rows a statement on r.db sees: PostgreSQL shows a statement outside
\* the writing transaction the committed rows only.
ReadCommitted(table, pending) == table

\* queryDialog finds no row: ErrNotFound, 404.
DetailNotFound(id) ==
    /\ reader = IdleReader
    /\ ~\E r \in ReadCommitted(dialogs, PendingDialogs) : r.id = id
    /\ reader' = DetailResponse(id, <<ErrNotFound>>, EmptyDialog)
    /\ UNCHANGED <<storeVars, callVars, wordVars, clientVars>>

\* queryDialog finds the row; queryTurns comes next.
DetailFound(id) ==
    /\ reader = IdleReader
    /\ \E r \in ReadCommitted(dialogs, PendingDialogs) :
        /\ r.id = id
        /\ reader' = [IdleReader EXCEPT !.pc = "turns", !.op = "detail",
                                        !.id = id, !.dlg = ScanDialog(r)]
    /\ UNCHANGED <<storeVars, callVars, wordVars, clientVars>>

\* queryTurns fails: 500.
DetailTurnsFail ==
    /\ reader.pc = "turns"
    /\ reader' = DetailResponse(reader.id, <<"select turns">>, EmptyDialog)
    /\ UNCHANGED <<storeVars, callVars, wordVars, clientVars>>

\* queryTurns succeeds: the dialog with its turns, 200.
DetailTurns ==
    /\ reader.pc = "turns"
    /\ reader' = DetailResponse(reader.id, NoError,
            [reader.dlg EXCEPT !.Turns =
                TurnsByPosition({r \in ReadCommitted(dialog_turns, PendingTurns) :
                                    r.dialog_id = reader.id})])
    /\ UNCHANGED <<storeVars, callVars, wordVars, clientVars>>

(***************************************************************************)
(* storage: DialogRepository.Search, behind Service.SearchDialogs          *)
(***************************************************************************)

DefaultLimit == 20

\* filter.X != nil && *filter.X != ""
FilterApplies(ptr) == ptr.present /\ ptr.v # <<>>

\* A plausible slip: a present CEFR level is not added to the WHERE clause.
RowMatchesIgnoringLevel(row, filter) ==
    /\ FilterApplies(filter.InputLanguage) =>
            row.input_language = filter.InputLanguage.v
    /\ FilterApplies(filter.DialogLanguage) =>
            row.dialog_language = filter.DialogLanguage.v

\* WHERE 1=1 [AND input_language = $n] [AND dialog_language = $n]
\* [AND cefr_level = $n]
RowMatches(row, filter) ==
    /\ FilterApplies(filter.InputLanguage) =>
            row.input_language = filter.InputLanguage.v
    /\ FilterApplies(filter.DialogLanguage) =>
            row.dialog_language = filter.DialogLanguage.v
    /\ FilterApplies(filter.CEFRLevel) =>
            row.cefr_level = filter.CEFRLevel.v

\* A plausible slip: ORDER BY created_at ASC.
RECURSIVE OrderedOldestFirst(_)
OrderedOldestFirst(rows) ==
    IF rows = {} THEN {<<>>}
    ELSE LET oldest == {r \in rows : \A q \in rows : r.created_at <= q.created_at}
         IN UNION {{<<r>> \o rest : rest \in OrderedOldestFirst(rows \ {r})} :
                        r \in oldest}

\* ORDER BY created_at DESC: every order of the rows in which created_at never
\* increases; rows with equal created_at come in any order.
RECURSIVE OrderedNewestFirst(_)
OrderedNewestFirst(rows) ==
    IF rows = {} THEN {<<>>}
    ELSE LET newest == {r \in rows : \A q \in rows : q.created_at <= r.created_at}
         IN UNION {{<<r>> \o rest : rest \in OrderedNewestFirst(rows \ {r})} :
                        r \in newest}

\* Service.SearchDialogs: if filter.Limit <= 0 { filter.Limit = 20 }
ServiceLimit(limit) == IF limit <= 0 THEN DefaultLimit ELSE limit

\* Search: LIMIT filter.Limit when positive, else LIMIT 20.
QueryLimit(limit) == IF limit > 0 THEN limit ELSE DefaultLimit

\* Search: OFFSET filter.Offset when positive.
QueryOffset(offset) == IF offset > 0 THEN offset ELSE 0

\* LIMIT n OFFSET m on an ordered row sequence.
LimitOffset(ordered, n, m) ==
    SubSeq(ordered, m + 1, IF m + n < Len(ordered) THEN m + n ELSE Len(ordered))

\* rows.Scan of the search query, then the three json.Unmarshal calls.
ScanSearchRow(row) ==
    [ScanDialog(row) EXCEPT !.Turns = UnmarshalTurns(row.dialog_json)]

\* Every result Search can return for the filter on the committed rows.
SearchResults(filter) ==
    {[i \in 1..Len(page) |-> ScanSearchRow(page[i])] :
        page \in {LimitOffset(ordered, QueryLimit(filter.Limit),
                              QueryOffset(filter.Offset)) :
                    ordered \in OrderedNewestFirst(
                                    {r \in dialogs : RowMatches(r, filter)})}}

SearchResponse(filter, err, list) ==
    [IdleReader EXCEPT !.op = "search", !.filter = filter, !.err = err,
                       !.list = list]

\* Service.SearchDialogs(filter), the query succeeds.
SearchDialogs(filter) ==
    LET defaulted == [filter EXCEPT !.Limit = ServiceLimit(filter.Limit)] IN
    /\ reader = IdleReader
    /\ \E list \in SearchResults(defaulted) :
            reader' = SearchResponse(filter, NoError, list)
    /\ UNCHANGED <<storeVars, callVars, wordVars, clientVars>>

\* Service.SearchDialogs(filter), the query fails: "search dialogs".
SearchDialogsFails(filter) ==
    /\ reader = IdleReader
    /\ reader' = SearchResponse(filter, <<"search dialogs">>, <<>>)
    /\ UNCHANGED <<storeVars, callVars, wordVars, clientVars>>

(***************************************************************************)
(* dialogs: validateCreateInput                                            *)
(***************************************************************************)

IsBlank(word) == TrimSpace(word) = <<>>

\* A plausible slip: the words are not looked at one by one.
validateCreateInputNoWordCheck(input) ==
    IF input.InputLanguage = <<>> \/ input.DialogLanguage = <<>>
            \/ input.CEFRLevel = <<>>
    THEN <<ErrInvalidInput>>
    ELSE IF Len(input.InputWords) = 0
    THEN <<"at least one input word is required", ErrInvalidInput>>
    ELSE NoError

\* nil, or an error that wraps ErrInvalidInput.
validateCreateInput(input) ==
    IF input.InputLanguage = <<>> \/ input.DialogLanguage = <<>>
            \/ input.CEFRLevel = <<>>
    THEN <<ErrInvalidInput>>
    ELSE IF Len(input.InputWords) = 0
    THEN <<"at least one input word is required", ErrInvalidInput>>
    ELSE IF \E i \in 1..Len(input.InputWords) : IsBlank(input.InputWords[i])
    THEN <<"empty word provided", ErrInvalidInput>>
    ELSE NoError

(***************************************************************************)
(* llm: OpenAIClient.GenerateDialog and StubClient.GenerateDialog          *)
(***************************************************************************)

Uppercase == <<"A", "B", "C", "D", "E", "F", "G", "H", "I", "J", "K", "L", "M",
               "N", "O", "P", "Q", "R", "S", "T", "U", "V", "W", "X", "Y", "Z">>
Lowercase == <<"a", "b", "c", "d", "e", "f", "g", "h", "i", "j", "k", "l", "m",
               "n", "o", "p", "q", "r", "s", "t", "u", "v", "w", "x", "y", "z">>

ToLowerChar(c) ==
    IF \E i \in 1..Len(Uppercase) : Uppercase[i] = c
    THEN Lowercase[CHOOSE i \in 1..Len(Uppercase) : Uppercase[i] = c]
    ELSE c

\* strings.ToLower
ToLower(s) == [i \in 1..Len(s) |-> ToLowerChar(s[i])]

\* strings.EqualFold
EqualFold(a, b) == ToLower(a) = ToLower(b)

\* strconv for the small numbers printed with %d.
Digits == <<"0", "1", "2", "3", "4", "5", "6", "7", "8", "9">>
Itoa(n) == IF n < 10 THEN <<Digits[n + 1]>>
           ELSE <<Digits[(n \div 10) + 1], Digits[(n % 10) + 1]>>

\* The status of an answer of the completion endpoint, and what it carries.
LLMReply(status, title, turns, translations) ==
    [status |-> status, Title |-> title, Turns |-> turns,
     Translations |-> translations]

ParsedTurn(speaker, text) == [Speaker |-> speaker, Text |-> text]

GenerateFailed(message) == [err |-> <<message>>, dlg |-> EmptyDialog]

\* A plausible slip: the usable turns are kept as the reply spelled them.
RECURSIVE UsableTurnsUntrimmed(_, _)
UsableTurnsUntrimmed(parsedTurns, i) ==
    IF i > Len(parsedTurns) THEN <<>>
    ELSE (IF TrimSpace(parsedTurns[i].Speaker) = <<>>
             \/ TrimSpace(parsedTurns[i].Text) = <<>>
          THEN <<>>
          ELSE <<DialogTurn(NilUUID, parsedTurns[i].Speaker,
                            parsedTurns[i].Text, <<>>, i - 1)>>)
            \o UsableTurnsUntrimmed(parsedTurns, i + 1)

\* The turns with a speaker and a text, trimmed; Position is the index in the
\* reply.
RECURSIVE UsableTurns(_, _)
UsableTurns(parsedTurns, i) ==
    IF i > Len(parsedTurns) THEN <<>>
    ELSE LET speaker == TrimSpace(parsedTurns[i].Speaker)
             text == TrimSpace(parsedTurns[i].Text)
         IN (IF speaker = <<>> \/ text = <<>> THEN <<>>
             ELSE <<DialogTurn(NilUUID, speaker, text, <<>>, i - 1)>>)
                \o UsableTurns(parsedTurns, i + 1)

TitleLimit == 50

\* A character that UTF-8 writes in two bytes (a Cyrillic letter).
WideChar == "\\u0434"

\* The bytes UTF-8 writes a character in.
RuneLen(ch) ==
    IF ch = WideChar THEN 2 ELSE IF ch = ReplacementChar THEN 3 ELSE 1

\* len(s): the bytes of a string.
RECURSIVE ByteLen(_)
ByteLen(s) == IF s = <<>> THEN 0 ELSE RuneLen(Head(s)) + ByteLen(Tail(s))

\* s[:n]: the first n bytes of a string; of a character that does not fit
\* whole, the bytes that fit, which are not valid UTF-8 on their own.
RECURSIVE FirstBytes(_, _)
FirstBytes(s, n) ==
    IF n = 0 \/ s = <<>> THEN <<>>
    ELSE IF RuneLen(Head(s)) <= n
    THEN <<Head(s)>> \o FirstBytes(Tail(s), n - RuneLen(Head(s)))
    ELSE [i \in 1..n |-> InvalidByte]

\* The trimmed title, or the start of the first turn's text.
TitleOf(parsedTitle, turns) ==
    LET title == TrimSpace(parsedTitle)
        firstText == TrimSpace(turns[1].Text)
    IN IF title # <<>> THEN title
       ELSE IF ByteLen(turns[1].Text) = 0 THEN <<"Dialog">>
       ELSE IF ByteLen(firstText) > TitleLimit
            THEN FirstBytes(firstText, TitleLimit) \o <<"...">>
            ELSE firstText

\* A plausible slip: only the exact key is looked up.
TranslationsForExactOnly(trimmed, translations) ==
    IF trimmed \in DOMAIN translations /\ translations[trimmed] # <<>>
    THEN {translations[trimmed]}
    ELSE {<<>>}

\* The values normalizedTranslations[trimmed] can get: the exact key's when it
\* is not empty, else that of a key equal up to case and outer space, whichever
\* the map iteration meets first, else "".
TranslationsFor(trimmed, translations) ==
    IF trimmed \in DOMAIN translations /\ translations[trimmed] # <<>>
    THEN {translations[trimmed]}
    ELSE LET folded == {translations[key] : key \in
                          {k \in DOMAIN translations :
                              /\ EqualFold(TrimSpace(k), trimmed)
                              /\ translations[k] # <<>>}}
         IN IF folded = {} THEN {<<>>} ELSE folded

\* A plausible slip: the keys are the input words as given.
NormalizedKeysUntrimmed(inputWords) ==
    {inputWords[i] : i \in 1..Len(inputWords)}

\* The keys of normalizedTranslations.
NormalizedKeys(inputWords) ==
    {TrimSpace(inputWords[i]) : i \in 1..Len(inputWords)}

\* Every map the normalization loop can build.
NormalizedTranslations(inputWords, translations) ==
    LET keys == NormalizedKeys(inputWords)
        values == UNION {TranslationsFor(TrimSpace(k), translations) : k \in keys}
    IN {m \in [keys -> values] :
            \A k \in keys : m[k] \in TranslationsFor(TrimSpace(k), translations)}

\* Every (error, dialog) OpenAIClient.GenerateDialog can return on the reply.
OpenAIGenerateDialog(params, reply) ==
    LET turns == UsableTurns(reply.Turns, 1) IN
    IF reply.status >= 400 THEN {GenerateFailed("openai error")}
    ELSE IF Len(reply.Turns) = 0
    THEN {GenerateFailed("openai returned no dialog turns")}
    ELSE IF Len(turns) = 0
    THEN {GenerateFailed("openai returned empty turns after validation")}
    ELSE {[err |-> NoError,
           dlg |-> [EmptyDialog EXCEPT !.Title = TitleOf(reply.Title, turns),
                                       !.Turns = turns,
                                       !.Translations = m]] :
            m \in NormalizedTranslations(params.InputWords, reply.Translations)}

\* What the endpoint did with the request: the transport failed, or it sent a
\* status and a body.  The body is no JSON ("not json"), carries an error
\* field ("error"), has no choices ("no choices"), has a first choice whose
\* content is not the dialog JSON ("bad content"), or one whose content
\* decodes to the reply's title, turns and translations ("dialog").
OpenAIAnswer(failed, kind, reply) ==
    [failed |-> failed, kind |-> kind, reply |-> reply]

\* OpenAIClient.GenerateDialog from the HTTP call on: every (error, dialog)
\* it can return on the answer.
GenerateDialog(params, answer) ==
    IF answer.failed THEN {GenerateFailed("call openai")}
    ELSE IF answer.reply.status >= 400 THEN {GenerateFailed("openai error")}
    ELSE IF answer.kind = "not json" THEN {GenerateFailed("decode response")}
    ELSE IF answer.kind = "error" THEN {GenerateFailed("openai error")}
    ELSE IF answer.kind = "no choices"
    THEN {GenerateFailed("openai returned no choices")}
    ELSE IF answer.kind = "bad content"
    THEN {GenerateFailed("parse dialog json")}
    ELSE OpenAIGenerateDialog(params, answer.reply)

\* The prefix table of buildSentence (the German and Russian entries are
\* written here in ASCII).
SentencePrefix(language) ==
    CASE language = <<"e", "s">> -> <<"Hablemos sobre">>
      [] language = <<"e", "n">> -> <<"Let's talk about">>
      [] language = <<"f", "i">> -> <<"Puhutaan">>
      [] language = <<"d", "e">> -> <<"Lass uns ueber">>
      [] language = <<"f", "r">> -> <<"Parlons de">>
      [] language = <<"r", "u">> -> <<"Davajte pogovorim o">>
      [] OTHER -> <<"Let's discuss">>

buildSentence(language, level, word, idx) ==
    SentencePrefix(ToLower(language)) \o <<" ">> \o word \o <<" (CEFR ">>
        \o level \o <<", turn ">> \o Itoa(idx + 1) \o <<").">>

MinStubTurns == 4

StubSpeakers == <<<<"Ana">>, <<"Luis">>>>

\* StubClient.GenerateDialog: max(4, len(words)) turns, no title, no
\* translations.
\* A max that forgets its second argument.
maxIsFirst(a, b) == a

max(a, b) == IF a > b THEN a ELSE b

StubGenerateDialog(params) ==
    LET n == Len(params.InputWords)
        turnCount == max(MinStubTurns, n)
    IN IF n = 0 THEN {GenerateFailed("input words required")}
       ELSE {[err |-> NoError,
              dlg |-> [EmptyDialog EXCEPT !.Turns =
                    [i \in 1..turnCount |->
                        DialogTurn(NilUUID,
                            StubSpeakers[((i - 1) % Len(StubSpeakers)) + 1],
                            buildSentence(params.DialogLanguage, params.CEFRLevel,
                                params.InputWords[((i - 1) % n) + 1], i - 1),
                            <<>>, 0)]]]}

(***************************************************************************)
(* tts: ElevenLabsClient.SynthesizeDialog and StubClient.SynthesizeDialog  *)
(***************************************************************************)

\* The bytes of an audio answer and their base64.StdEncoding text.
AudioBytes == <<"I", "D", "3">>
Base64(bytes) == IF bytes = AudioBytes THEN <<"S", "U", "Q", "z">> ELSE <<>>

SynthesizeFailed(message) == [err |-> <<message>>, dlg |-> EmptyDialog]

\* "/static/audio/placeholder.mp3?turn=%d"
PlaceholderURL(n) == <<"/static/audio/placeholder.mp3">> \o <<"?turn=">> \o Itoa(n)

DataURL(audio) == <<"data:audio/mpeg;base64,">> \o Base64(audio)

\* What the provider does with one request: the transport fails, or it
\* answers with a status and a body.
ProviderAnswer(failed, status, body) ==
    [failed |-> failed, status |-> status, body |-> body]

\* synthesizeText: a transport error, a status of 400 or more and an empty
\* body are errors; anything else returns the body.
synthesizeTextAcceptingEmpty(answer) ==
    IF answer.failed
    THEN [err |-> <<"call elevenlabs">>, audio |-> <<>>]
    ELSE IF answer.status >= 400
    THEN [err |-> <<"elevenlabs error">>, audio |-> <<>>]
    ELSE [err |-> NoError, audio |-> answer.body]

synthesizeText(answer) ==
    IF answer.failed
    THEN [err |-> <<"call elevenlabs">>, audio |-> <<>>]
    ELSE IF answer.status >= 400
    THEN [err |-> <<"elevenlabs error">>, audio |-> <<>>]
    ELSE IF Len(answer.body) = 0
    THEN [err |-> <<"elevenlabs returned empty audio">>, audio |-> <<>>]
    ELSE [err |-> NoError, audio |-> answer.body]

\* uuid.New() inside SynthesizeDialog: an identifier the dialog does not hold.
TurnIDsOf(dlg) == {dlg.Turns[i].ID : i \in 1..Len(dlg.Turns)} \cup {dlg.ID}

FreshTurnID(dlg, i) ==
    i + (CHOOSE m \in TurnIDsOf(dlg) : \A n \in TurnIDsOf(dlg) : n <= m)

TurnIDKept(dlg, i) == dlg.Turns[i].ID

TurnIDAssigned(dlg, i) ==
    IF dlg.Turns[i].ID = NilUUID THEN FreshTurnID(dlg, i) ELSE dlg.Turns[i].ID

\* One pass of the ElevenLabs loop over turn i (from 1) that got the audio.
ElevenLabsTurn(dlg, i, audio) ==
    [dlg.Turns[i] EXCEPT !.ID = TurnIDAssigned(dlg, i),
                         !.AudioURL = IF Len(audio) = 0
                                      THEN PlaceholderURL(i - 1)
                                      ELSE DataURL(audio)]

\* The error of the call when the request of turn i (from 1) failed.
TurnError(i, err) == <<"elevenlabs synthesize turn">> \o Itoa(i - 1) \o err

\* The indexes (from 0) of the turns a request was sent for, in order.
RequestsUpTo(n) == [j \in 1..n |-> j - 1]

\* synthesizeText answers turn i with audios[i]: an error, or the bytes.
\* The first error ends the loop with Dialog{}.
ElevenLabsSynthesizeDialog(dlg, audios) ==
    IF \E i \in 1..Len(dlg.Turns) : audios[i].err # NoError
    THEN LET i == CHOOSE j \in 1..Len(dlg.Turns) :
                    /\ audios[j].err # NoError
                    /\ \A h \in 1..(j - 1) : audios[h].err = NoError
         IN [err |-> TurnError(i, audios[i].err),
             dlg |-> EmptyDialog,
             requests |-> RequestsUpTo(i)]
    ELSE [err |-> NoError,
          dlg |-> [dlg EXCEPT !.Turns =
                    [i \in 1..Len(dlg.Turns) |->
                        ElevenLabsTurn(dlg, i, audios[i].audio)]],
          requests |-> RequestsUpTo(Len(dlg.Turns))]

\* One pass of the stub's loop: a placeholder URL that carries the turn's
\* Position.
StubTurn(dlg, i) ==
    [dlg.Turns[i] EXCEPT !.ID = TurnIDAssigned(dlg, i),
                         !.AudioURL = PlaceholderURL(dlg.Turns[i].Position)]

StubSynthesizeDialog(dlg) ==
    [err |-> NoError,
     dlg |-> [dlg EXCEPT !.Turns =
                [i \in 1..Len(dlg.Turns) |-> StubTurn(dlg, i)]],
     requests |-> <<>>]

\* Where the ElevenLabs loop goes after the request of turn i (from 1) of n.
AfterTurnSkippingFailed(err, i, n) == IF i = n THEN "return" ELSE "loop"

AfterTurn(err, i, n) ==
    IF err # NoError THEN "fail" ELSE IF i = n THEN "return" ELSE "loop"

\* What synthesizeText returns: the bytes, or an error (an empty body is an
\* error too).
AudioOK == synthesizeText(ProviderAnswer(FALSE, 200, AudioBytes))
AudioFailed == synthesizeText(ProviderAnswer(TRUE, 0, <<>>))

\* The answers for n turns in which turn failAt (from 1) fails, none for 0.
AudioAnswers(n, failAt) ==
    [i \in 1..n |-> IF i = failAt THEN AudioFailed ELSE AudioOK]

(***************************************************************************)
(* dialogs: Service.CreateDialog                                           *)
(***************************************************************************)

\* The ids in the store or in a call under way.
UsedIDs ==
    {r.id : r \in dialogs} \cup {r.id : r \in dialog_turns}
        \cup UNION {{call[p].dlg.ID} \cup
                    {call[p].dlg.Turns[i].ID : i \in 1..Len(call[p].dlg.Turns)} :
                        p \in Procs}

\* Where the ids uuid.New() gives caller p start: no two callers draw the
\* same id.
IDSpace == 100
IDBase(p) == IF p = "p1" THEN 0 ELSE IDSpace

\* uuid.New(), n times, for caller p: ids nobody has.
RECURSIVE NewUUIDs(_, _, _)
NewUUIDs(p, used, n) ==
    IF n = 0 THEN <<>>
    ELSE LET id == CHOOSE i \in (IDBase(p) + 1)..(IDBase(p) + IDSpace) :
                        /\ i \notin used
                        /\ \A j \in (IDBase(p) + 1)..(i - 1) : j \in used
         IN <<id>> \o NewUUIDs(p, used \cup {id}, n - 1)

\* A plausible slip: the turns keep the Position the generator gave them.
TurnsWithGeneratorPositions(turns, ids) ==
    [i \in 1..Len(turns) |->
        [turns[i] EXCEPT !.ID = IF @ = NilUUID THEN ids[i] ELSE @]]

\* A plausible slip: every turn gets a new id.
TurnsWithFreshIDs(turns, ids) ==
    [i \in 1..Len(turns) |->
        [turns[i] EXCEPT !.ID = ids[i], !.Position = i - 1]]

\* for i := range dlg.Turns: an id where there is none, Position = i.
TurnsWithPositions(turns, ids) ==
    [i \in 1..Len(turns) |->
        [turns[i] EXCEPT !.ID = IF @ = NilUUID THEN ids[i] ELSE @,
                         !.Position = i - 1]]

\* The Dialog CreateDialog assembles from the input and the generated one.
AssembledDialog(input, generated, now, ids) ==
    [ID |-> ids[1],
     Title |-> generated.Title,
     InputLanguage |-> input.InputLanguage,
     DialogLanguage |-> input.DialogLanguage,
     CEFRLevel |-> input.CEFRLevel,
     InputWords |-> input.InputWords,
     Translations |-> generated.Translations,
     Turns |-> TurnsWithPositions(generated.Turns, Tail(ids)),
     CreatedAt |-> now]

\* A plausible slip: the synthesizer's error is not looked at.
AfterSynthesisIgnoringError(err) == "begin"

AfterGenerationRetrying(err) == IF err # NoError THEN "generate" ELSE "synthesize"

\* Where CreateDialog goes after a step that returned err.
AfterGeneration(err) == IF err # NoError THEN "idle" ELSE "synthesize"
AfterSynthesis(err) == IF err # NoError THEN "idle" ELSE "begin"

\* What CreateDialog returns before it has reached the store.
ServiceResult(p, input, err, log) ==
    [NoResult EXCEPT !.via = "service", !.err = err, !.input = input,
                     !.arg = call[p].dlg, !.log = log, !.llm = call[p].llm,
                     !.tts = call[p].tts, !.requests = call[p].requests,
                     !.http = CHOOSE response \in handleCreateDialog(err) : TRUE]

\* CreateDialog is called; validateCreateInput decides.
CreateDialog(p, input) ==
    LET err == validateCreateInput(input) IN
    /\ pc[p] = "idle"
    /\ IF err # NoError
       THEN /\ result' = [result EXCEPT ![p] =
                    ServiceResult(p, input, <<"validate input">> \o err, <<>>)]
            /\ UNCHANGED <<pc, call>>
       ELSE /\ pc' = [pc EXCEPT ![p] = "generate"]
            /\ call' = [call EXCEPT ![p] =
                    [IdleCall EXCEPT !.via = "service", !.input = input]]
            /\ result' = [result EXCEPT ![p] = NoResult]
    /\ UNCHANGED <<storeVars, reader, wordVars, clientVars>>

\* s.llm.GenerateDialog returns `generated`; on success the dialog is
\* assembled, ids and positions given.
GenerateReturns(p, client, generated, now) ==
    LET next == AfterGeneration(generated.err)
        ids == NewUUIDs(p, UsedIDs, 1 + Len(generated.dlg.Turns))
        log == Append(call[p].log, IF generated.err = NoError
                                   THEN "generate ok" ELSE "generate failed")
    IN
    /\ pc' = [pc EXCEPT ![p] = next]
    /\ IF next = "idle"
       THEN /\ call' = [call EXCEPT ![p] = IdleCall]
            /\ result' = [result EXCEPT ![p] =
                    ServiceResult(p, call[p].input,
                        <<"generate dialog">> \o generated.err, log)]
       ELSE /\ call' = [call EXCEPT
                    ![p].dlg = AssembledDialog(call[p].input, generated.dlg,
                                               now, ids),
                    ![p].llm = client,
                    ![p].generated = generated.dlg.Turns,
                    ![p].log = log]
            /\ UNCHANGED result
    /\ UNCHANGED <<storeVars, reader, wordVars, clientVars>>

\* The generator is the OpenAI client and the endpoint answers `reply`.
GenerateOpenAI(p, reply, now) ==
    /\ pc[p] = "generate"
    /\ \E generated \in OpenAIGenerateDialog(call[p].input, reply) :
            GenerateReturns(p, "openai", generated, now)

\* The generator is the stub.
GenerateStub(p, now) ==
    /\ pc[p] = "generate"
    /\ \E generated \in StubGenerateDialog(call[p].input) :
            GenerateReturns(p, "stub", generated, now)

\* The generator is some other implementation of LLMClient, which returns
\* the dialog `generated`.
GenerateOther(p, generated, now) ==
    /\ pc[p] = "generate"
    /\ GenerateReturns(p, "other", [err |-> NoError, dlg |-> generated], now)

\* s.tts.SynthesizeDialog returns `synthesized`; on success repo.Create is
\* called with the dialog it returned.
SynthesizeReturns(p, client, synthesized) ==
    LET next == AfterSynthesis(synthesized.err)
        log == Append(call[p].log, IF synthesized.err = NoError
                                   THEN "synthesize ok" ELSE "synthesize failed")
    IN
    /\ pc' = [pc EXCEPT ![p] = next]
    /\ IF next = "idle"
       THEN /\ call' = [call EXCEPT ![p] = IdleCall]
            /\ result' = [result EXCEPT ![p] =
                    [ServiceResult(p, call[p].input,
                        <<"tts synthesize">> \o synthesized.err, log)
                     EXCEPT !.tts = client,
                            !.requests = synthesized.requests]]
       ELSE /\ call' = [call EXCEPT ![p].dlg = synthesized.dlg,
                                    ![p].tts = client,
                                    ![p].requests = synthesized.requests,
                                    ![p].log = log]
            /\ UNCHANGED result
    /\ UNCHANGED <<storeVars, reader, wordVars, clientVars>>

\* The synthesizer is the ElevenLabs client; turn failAt fails (0: none does).
SynthesizeElevenLabs(p, failAt) ==
    /\ pc[p] = "synthesize"
    /\ failAt <= Len(call[p].dlg.Turns)
    /\ SynthesizeReturns(p, "elevenlabs",
            ElevenLabsSynthesizeDialog(call[p].dlg,
                AudioAnswers(Len(call[p].dlg.Turns), failAt)))

\* The synthesizer is the stub.
SynthesizeStub(p) ==
    /\ pc[p] = "synthesize"
    /\ SynthesizeReturns(p, "stub", StubSynthesizeDialog(call[p].dlg))

(***************************************************************************)
(* The normalizer applied to bounded raw texts                             *)
(***************************************************************************)

\* Longest enumerated raw text.
MaxRawLen == 4

RawAlphabet == {"a", "b", ",", " ", "\n", "\r"}

RECURSIVE StringsUpTo(_, _)
StringsUpTo(alphabet, n) ==
    IF n = 0 THEN {<<>>}
    ELSE LET shorter == StringsUpTo(alphabet, n - 1)
         IN shorter \cup {Append(s, c) : s \in {t \in shorter : Len(t) = n - 1},
                                         c \in alphabet}

\* "casa, perro\nlibro"
RawScenarioComma ==
    <<"c", "a", "s", "a", ",", " ", "p", "e", "r", "r", "o", "\n",
      "l", "i", "b", "r", "o">>

\* "casa perro"
RawScenarioSpace == <<"c", "a", "s", "a", " ", "p", "e", "r", "r", "o">>

\* "new york,\tparis \r\n" : a phrase with an inner blank, a tab and CRLF
RawScenarioPhrase ==
    <<"n", "e", "w", " ", "y", "o", "r", "k", ",", "\t", "p", "a", "r", "i", "s",
      " ", "\r", "\n">>

RawTexts ==
    StringsUpTo(RawAlphabet, MaxRawLen)
        \cup {RawScenarioComma, RawScenarioSpace, RawScenarioPhrase}

\* The states every specification starts the other components in.
\* SynthesizeDialog and GenerateDialog have not been called on their own.
IdleSynth ==
    [pc |-> "idle", client |-> "none", input |-> EmptyDialog, dlg |-> EmptyDialog,
     i |-> 0, requests |-> <<>>, answers |-> <<>>, err |-> NoError,
     out |-> EmptyDialog]

NoSecondRun == [done |-> FALSE, err |-> NoError, out |-> EmptyDialog]

IdleGen ==
    [done |-> FALSE, client |-> "none", words |-> <<>>, failed |-> FALSE,
     kind |-> "none",
     reply |-> [status |-> 0, Title |-> <<>>, Turns |-> <<>>,
                Translations |-> <<>>],
     err |-> NoError, out |-> EmptyDialog, again |-> NoSecondRun]

\* pingDB has not been called.
IdlePing ==
    [pc |-> "idle", attempt |-> 0, err |-> NoError, cancelled |-> FALSE,
     outcomes |-> <<>>, sawDone |-> FALSE, returned |-> NoError]

ClientsIdle == synth = IdleSynth /\ gen = IdleGen /\ ping = IdlePing

\* No second call of parseWords yet.
NoSecondCall == [done |-> FALSE, words |-> <<>>]

WordsIdle == raw = <<>> /\ words = <<>> /\ parsed = FALSE /\ second = NoSecondCall

StoreEmpty ==
    /\ dialogs = {}
    /\ dialog_turns = {}
    /\ tx = [p \in Procs |-> NoTx]
    /\ created = <<>>

CallersIdle ==
    /\ pc = [p \in Procs |-> "idle"]
    /\ call = [p \in Procs |-> IdleCall]
    /\ result = [p \in Procs |-> NoResult]

InitWords ==
    /\ raw \in RawTexts
    /\ words = <<>>
    /\ parsed = FALSE
    /\ second = NoSecondCall
    /\ StoreEmpty
    /\ CallersIdle
    /\ reader = IdleReader
    /\ ClientsIdle

\* handleCreateDialog: InputWords: parseWords(r.FormValue("input_words"))
ParseWords ==
    /\ ~parsed
    /\ words' = parseWords(raw)
    /\ parsed' = TRUE
    /\ UNCHANGED <<raw, second, storeVars, callVars, reader, clientVars>>

\* parseWords is called once more with the same form value.
ParseWordsAgain ==
    /\ parsed
    /\ ~second.done
    /\ second' = [done |-> TRUE, words |-> parseWords(raw)]
    /\ UNCHANGED <<raw, words, parsed, storeVars, callVars, reader, clientVars>>

NextWords == ParseWords \/ ParseWordsAgain

SpecWords == InitWords /\ [][NextWords]_vars

(***************************************************************************)
(* The repository driven directly, as storage's tests drive it             *)
(***************************************************************************)

Casa == <<"c", "a", "s", "a">>
Perro == <<"p", "e", "r", "r", "o">>
Libro == <<"l", "i", "b", "r", "o">>
Ru == <<"r", "u">>
En == <<"e", "n">>
Es == <<"e", "s">>
Fi == <<"f", "i">>
Ana == <<"Ana">>
Luis == <<"Luis">>
Hola == <<"H", "o", "l", "a">>
Adios == <<"A", "d", "i", "o", "s">>
House == <<"h", "o", "u", "s", "e">>
Dog == <<"d", "o", "g">>
Placeholder == <<"/static/audio/placeholder.mp3">>
\* A word and a text that hold a byte outside UTF-8.
BadWord == <<"c", InvalidByte>>
BadText == <<"H", InvalidByte>>
LevelX9 == <<"X9">>

RepoDialog(id, level, inputWords, translations, turns, createdAt) ==
    [ID |-> id, Title |-> <<"T">>, InputLanguage |-> Ru, DialogLanguage |-> Es,
     CEFRLevel |-> level, InputWords |-> inputWords,
     Translations |-> translations, Turns |-> turns, CreatedAt |-> createdAt]

\* The dialogs Create is called with: well-formed ones, and ones that break
\* each constraint of the schema.
RepoDialogs ==
    { \* two turns, Position in array order
      RepoDialog(1, LevelB1, <<Casa, Perro>>, (Casa :> House) @@ (Perro :> Dog),
        <<DialogTurn(11, Ana, Hola, Placeholder, 0),
          DialogTurn(12, Luis, Adios, Placeholder, 1)>>, 1),
      \* an input word and a translation key that are not valid UTF-8
      RepoDialog(2, LevelA2, <<BadWord>>, (BadWord :> House),
        <<DialogTurn(21, Ana, Hola, Placeholder, 0)>>, 2),
      \* Position against array order
      RepoDialog(3, LevelB1, <<Casa>>, (Casa :> <<>>),
        <<DialogTurn(31, Ana, Hola, Placeholder, 1),
          DialogTurn(32, Luis, Adios, Placeholder, 0)>>, 2),
      \* the id of dialog 1 again
      RepoDialog(1, LevelC1, <<Perro>>, (Perro :> Dog),
        <<DialogTurn(41, Luis, Adios, Placeholder, 0)>>, 3),
      \* duplicate (dialog_id, position)
      RepoDialog(5, LevelB1, <<Casa>>, (Casa :> House),
        <<DialogTurn(51, Ana, Hola, Placeholder, 0),
          DialogTurn(52, Luis, Adios, Placeholder, 0)>>, 3),
      \* a level the CHECK rejects
      RepoDialog(6, LevelX9, <<Casa>>, (Casa :> House),
        <<DialogTurn(61, Ana, Hola, Placeholder, 0)>>, 3),
      \* no turns, no translations
      RepoDialog(7, LevelB2, <<Casa>>, <<>>, <<>>, 1),
      \* the id of a turn of dialog 1 again, and a turn text outside UTF-8
      RepoDialog(8, LevelB1, <<Perro>>, (Perro :> Dog),
        <<DialogTurn(81, Ana, Hola, Placeholder, 0),
          DialogTurn(11, Luis, Adios, Placeholder, 1)>>, 4),
      RepoDialog(9, LevelB1, <<Perro>>, (Perro :> Dog),
        <<DialogTurn(91, Ana, BadText, Placeholder, 0)>>, 4) }

\* The ids handleDetail is asked for: ids of dialogs above and one nobody has.
RepoLookupIDs == {1, 2, 3, 7, 99}

\* The callers of the repository in SpecStore.
RepoCallers == {"p1"}

InitStore ==
    /\ WordsIdle
    /\ StoreEmpty
    /\ CallersIdle
    /\ reader = IdleReader
    /\ ClientsIdle

NextStore ==
    \/ \E p \in RepoCallers, dlg \in RepoDialogs : RepoCreate(p, dlg)
    \/ \E p \in RepoCallers : BeginTx(p)
    \/ \E p \in RepoCallers : BeginTxFails(p)
    \/ \E p \in RepoCallers : InsertDialog(p)
    \/ \E p \in RepoCallers : InsertDialogFails(p)
    \/ \E p \in RepoCallers : InsertTurn(p)
    \/ \E p \in RepoCallers : InsertTurnFails(p)
    \/ \E p \in RepoCallers : CommitTx(p)
    \/ \E p \in RepoCallers : CommitTxFails(p)
    \/ DetailBadID
    \/ \E id \in RepoLookupIDs : DetailSelectFails(id)
    \/ \E id \in RepoLookupIDs : DetailNotFound(id)
    \/ \E id \in RepoLookupIDs : DetailFound(id)
    \/ DetailTurnsFail
    \/ DetailTurns
    \/ SearchDialogs(NoFilter)
    \/ Respond

SpecStore == InitStore /\ [][NextStore]_vars

(***************************************************************************)
(* C10: what parseWords returns                                            *)
(***************************************************************************)

\* The positions at which a text is cut: before it, at each separator, after it.
Cuts(s, seps) == {0} \cup {i \in 1..Len(s) : s[i] \in seps} \cup {Len(s) + 1}

\* The k-th cut, counted from the left.
KthCut(s, seps, k) ==
    CHOOSE c \in Cuts(s, seps) : Cardinality({d \in Cuts(s, seps) : d < c}) = k - 1

\* The pieces between consecutive cuts, empty ones included, left to right.
Pieces(s, seps) ==
    [k \in 1..(Cardinality(Cuts(s, seps)) - 1) |->
        SubSeq(s, KthCut(s, seps, k) + 1, KthCut(s, seps, k + 1) - 1)]

\* A piece without its surrounding white space.
Trimmed(s) ==
    LET inked == {i \in 1..Len(s) : s[i] \notin WhiteSpace}
    IN IF inked = {} THEN <<>>
       ELSE SubSeq(s, CHOOSE i \in inked : \A j \in inked : i <= j,
                      CHOOSE i \in inked : \A j \in inked : i >= j)

IsNonEmpty(s) == s # <<>>

ExpectedWords(r) ==
    LET seps == IF \E i \in 1..Len(r) : r[i] = "," THEN {",", "\n", "\r"}
                ELSE WhiteSpace
        pieces == Pieces(r, seps)
    IN SelectSeq([k \in 1..Len(pieces) |-> Trimmed(pieces[k])], IsNonEmpty)

\* C10: parseWords returns the pieces of the raw text, split on commas and
\* line breaks when the text has a comma and on white space otherwise, each
\* trimmed, the empty ones dropped, in order; the spec's two examples come out
\* as stated and an all-blank text gives the empty sequence.
C10_ParseWordsSplitsTrimsKeepsOrder ==
    parsed =>
        /\ words = ExpectedWords(raw)
        /\ raw = RawScenarioComma => words = <<Casa, Perro, Libro>>
        /\ raw = RawScenarioSpace => words = <<Casa, Perro>>
        /\ (\A i \in 1..Len(raw) : raw[i] \in WhiteSpace) => words = <<>>

C10_Witness ==
    /\ parsed
    /\ raw = RawScenarioComma
    /\ words = <<Casa, Perro, Libro>>

(***************************************************************************)
(* Search over stores that earlier Create calls have filled                *)
(***************************************************************************)

\* The rows insertTurn writes for a dialog.
TurnRowsOf(dlg) == {TurnRow(dlg, dlg.Turns[i]) : i \in 1..Len(dlg.Turns)}

\* Largest small Limit and largest Offset a search is made with.
MaxLimit == 3
MaxOffset == 2
\* Dialogs of the large store: more than the default limit.
NumSeeds == 22

SearchDialog(id, inputLanguage, dialogLanguage, level, createdAt) ==
    [RepoDialog(id, level, <<Casa>>, (Casa :> House),
                <<DialogTurn(10 * id, Ana, Hola, Placeholder, 0)>>, createdAt)
        EXCEPT !.InputLanguage = inputLanguage,
               !.DialogLanguage = dialogLanguage]

\* Four dialogs, two of them created at the same time.
FewDialogs ==
    { SearchDialog(1, Ru, Es, LevelB1, 1),
      SearchDialog(2, Ru, Es, LevelA2, 2),
      SearchDialog(3, En, Es, LevelB1, 2),
      SearchDialog(4, En, Fi, LevelB1, 3) }

\* NumSeeds dialogs, created one after the other.
ManyDialogs ==
    { SearchDialog(100 + k,
                   IF k % 2 = 0 THEN Ru ELSE En, Es,
                   IF k % 3 = 0 THEN LevelB1 ELSE LevelA2, k) : k \in 1..NumSeeds }

\* The store after Create has committed each dialog of the set.
StoreHolding(dlgs) ==
    /\ dialogs = {DialogRow(d) : d \in dlgs}
    /\ dialog_turns = UNION {TurnRowsOf(d) : d \in dlgs}
    /\ created = [id \in {d.ID : d \in dlgs} |->
                    CHOOSE d \in dlgs : d.ID = id]
    /\ tx = [p \in Procs |-> NoTx]

SearchLimits == (-1..MaxLimit) \cup {DefaultLimit + 1}

SearchFilters ==
    [InputLanguage : {NilString, StringPtr(<<>>), StringPtr(Ru), StringPtr(Fi)},
     DialogLanguage : {NilString, StringPtr(Es), StringPtr(Fi)},
     CEFRLevel : {NilString, StringPtr(<<>>), StringPtr(LevelB1)},
     Limit : SearchLimits,
     Offset : -1..MaxOffset]

InitSearch ==
    /\ WordsIdle
    /\ CallersIdle
    /\ reader = IdleReader
    /\ ClientsIdle
    /\ \E dlgs \in {{}, FewDialogs, ManyDialogs} : StoreHolding(dlgs)

NextSearch ==
    \/ \E filter \in SearchFilters : SearchDialogs(filter)
    \/ \E filter \in SearchFilters : SearchDialogsFails(filter)
    \/ Respond

SpecSearch == InitSearch /\ [][NextSearch]_vars


(***************************************************************************)
(* The service: concurrent CreateDialog calls on one store                 *)
(***************************************************************************)

\* Dialogs the store can hold before no further CreateDialog is started.
MaxStored == 1
\* time.Now() gives one of 1..MaxTime.
MaxTime == 1
\* The turn of a dialog at which synthesis can fail, counted from 1.
MaxFailAt == 2

SpaceCasa == <<" ">> \o Casa
UpperCasa == <<"C", "a", "s", "a">>
AllCapsCasa == <<"C", "A", "S", "A">>
Home == <<"h", "o", "m", "e">>

CreateInput(inputLanguage, dialogLanguage, level, inputWords) ==
    [InputLanguage |-> inputLanguage, DialogLanguage |-> dialogLanguage,
     CEFRLevel |-> level, InputWords |-> inputWords]

\* Inputs that pass validateCreateInput (one with a word that has outer
\* space), and inputs that do not.
ServiceInputs ==
    { CreateInput(Ru, Es, LevelB1, <<Casa>>),
      CreateInput(Ru, Es, LevelB1, <<SpaceCasa, Perro>>),
      CreateInput(<<>>, Es, LevelB1, <<Casa>>),
      CreateInput(Ru, <<>>, LevelB1, <<Casa>>),
      CreateInput(Ru, Es, <<>>, <<Casa>>),
      CreateInput(Ru, Es, LevelB1, <<>>),
      CreateInput(Ru, Es, LevelB1, <<Casa, <<" ", "\t">>>>) }

\* What the completion endpoint can answer.
LLMReplies ==
    { LLMReply(500, <<>>, <<>>, <<>>),
      LLMReply(200, <<"T">>, <<>>, <<>>),
      LLMReply(200, <<"T">>, <<ParsedTurn(<<" ">>, Hola), ParsedTurn(Ana, <<>>)>>,
               (Casa :> House)),
      \* a blank turn among usable ones, no title, a key nobody asked for
      LLMReply(200, <<>>,
               <<ParsedTurn(<<>>, Hola), ParsedTurn(Ana, <<" ">> \o Hola),
                 ParsedTurn(Luis, Adios)>>,
               (Casa :> House) @@ (Libro :> Dog)),
      \* the exact key without a value, two keys equal to it up to case
      LLMReply(200, <<" ", "T">>, <<ParsedTurn(Ana, Hola)>>,
               (Casa :> <<>>) @@ (UpperCasa :> House) @@ (AllCapsCasa :> Home)) }

Times == 1..MaxTime

InitService ==
    /\ WordsIdle
    /\ StoreEmpty
    /\ CallersIdle
    /\ reader = IdleReader
    /\ ClientsIdle

Next ==
    \/ \E p \in Procs, input \in ServiceInputs :
            Cardinality(dialogs) < MaxStored /\ CreateDialog(p, input)
    \/ \E p \in Procs, reply \in LLMReplies, now \in Times :
            GenerateOpenAI(p, reply, now)
    \/ \E p \in Procs, now \in Times : GenerateStub(p, now)
    \/ \E p \in Procs, failAt \in 0..MaxFailAt : SynthesizeElevenLabs(p, failAt)
    \/ \E p \in Procs : SynthesizeStub(p)
    \/ \E p \in Procs : BeginTx(p)
    \/ \E p \in Procs : BeginTxFails(p)
    \/ \E p \in Procs : InsertDialog(p)
    \/ \E p \in Procs : InsertDialogFails(p)
    \/ \E p \in Procs : InsertTurn(p)
    \/ \E p \in Procs : InsertTurnFails(p)
    \/ \E p \in Procs : CommitTx(p)
    \/ \E p \in Procs : CommitTxFails(p)

Spec == InitService /\ [][Next]_vars

(***************************************************************************)
(* C4: Create is atomic                                                    *)
(***************************************************************************)

\* The committed rows are those of the dialogs whose Create succeeded: each
\* with its dialog row and a row for every turn, and no other row.
C4_AllRowsOrNone ==
    /\ dialogs = {DialogRow(created[id]) : id \in DOMAIN created}
    /\ dialog_turns = UNION {TurnRowsOf(created[id]) : id \in DOMAIN created}
    /\ \A id \in DOMAIN created : created[id].ID = id

\* The statements of a successful Create, in order.
StatementsOfCreate(dlg) ==
    <<Statement("begin", 0), Statement("insert dialog", 0)>>
        \o [i \in 1..Len(dlg.Turns) |-> Statement("insert turn", i - 1)]
        \o <<Statement("commit", 0)>>

\* A step in which caller p's Create returns.
CreateReturns(p) == pc[p] \in {"begin", "insertDialog", "insertTurn", "commit"}
                        /\ pc'[p] = "idle"

C4_ReturnStep ==
    \A p \in Procs :
        CreateReturns(p) =>
            IF result'[p].err = NoError
            THEN /\ result'[p].stmts = StatementsOfCreate(result'[p].arg)
                 /\ dialogs' = dialogs \cup {DialogRow(result'[p].arg)}
                 /\ dialog_turns' = dialog_turns \cup TurnRowsOf(result'[p].arg)
                 /\ DialogRow(result'[p].arg) \notin dialogs
                 /\ Cardinality(TurnRowsOf(result'[p].arg))
                        = Len(result'[p].arg.Turns)
            ELSE /\ dialogs' = dialogs
                 /\ dialog_turns' = dialog_turns

\* C4: after any Create call either the dialog row and one row for each of
\* its turns are stored, or none of them; a failed dialog insert, turn insert
\* or commit leaves the tables as they were; a successful call ran begin,
\* insert dialog, the turn inserts in array order, commit.
C4_CreateIsAtomic == []C4_AllRowsOrNone /\ [][C4_ReturnStep]_vars

\* The second turn insert of dialog 5 failed on (dialog_id, position) after the
\* dialog row and the first turn row were written; dialog 1 is stored whole.
C4_Witness ==
    /\ result["p1"].via = "repo"
    /\ result["p1"].arg.ID = 5
    /\ result["p1"].err = <<"insert turn">>
    /\ result["p1"].stmts = <<Statement("begin", 0), Statement("insert dialog", 0),
                              Statement("insert turn", 0)>>
    /\ 1 \in DOMAIN created
    /\ Cardinality({r \in dialog_turns : r.dialog_id = 1}) = 2

(***************************************************************************)
(* C5: Create, then GetByID                                                *)
(***************************************************************************)

RECURSIVE SortedByPosition(_)
SortedByPosition(turnSet) ==
    IF turnSet = {} THEN <<>>
    ELSE LET first == CHOOSE t \in turnSet : \A u \in turnSet : t.Position <= u.Position
         IN <<first>> \o SortedByPosition(turnSet \ {first})

InPositionOrder(turns) == SortedByPosition({turns[i] : i \in 1..Len(turns)})

\* handleDetail has answered with the dialog GetByID returned.
GotDialog == reader.op = "detail" /\ reader.pc = "idle" /\ reader.err = NoError

\* C5: a dialog that Create stored comes back from GetByID with identical
\* InputWords, Translations and Turns (the turns in Position order).
C5_RoundTrip ==
    GotDialog =>
        /\ reader.dlg.InputWords = created[reader.id].InputWords
        /\ reader.dlg.Translations = created[reader.id].Translations
        /\ reader.dlg.Turns = InPositionOrder(created[reader.id].Turns)

\* What holds instead: the words and translations come back coerced to valid
\* UTF-8, the turns exactly.
C5_RoundTripUpToCoercion ==
    GotDialog =>
        /\ reader.dlg.InputWords = MarshalWords(created[reader.id].InputWords)
        /\ reader.dlg.Translations
                = MarshalTranslations(created[reader.id].Translations)
        /\ reader.dlg.Turns = InPositionOrder(created[reader.id].Turns)
        /\ (\A i \in 1..Len(created[reader.id].InputWords) :
                ValidUTF8(created[reader.id].InputWords[i]))
            => reader.dlg.InputWords = created[reader.id].InputWords

(***************************************************************************)
(* C8, C9: Search                                                          *)
(***************************************************************************)

Min(a, b) == IF a <= b THEN a ELSE b
Max(a, b) == IF a >= b THEN a ELSE b

\* Service.SearchDialogs has returned a list.
Searched == reader.op = "search" /\ reader.pc = "idle" /\ reader.err = NoError

\* The stored dialogs as a search returns them.
StoredDialogs == {ScanSearchRow(DialogRow(created[id])) : id \in DOMAIN created}

Listed(list) == {list[i] : i \in 1..Len(list)}

NewestFirst(list) ==
    \A i, j \in 1..Len(list) : i < j => list[i].CreatedAt >= list[j].CreatedAt

NoRepeats(list) ==
    \A i, j \in 1..Len(list) : i # j => list[i].ID # list[j].ID

\* The list is a window of `limit` entries, after `offset` skipped ones, on
\* some newest-first order of the candidates: the candidates left out are
\* `offset` ones at least as new as the first entry, and ones that are not
\* newer than the last entry.
IsWindow(list, candidates, limit, offset) ==
    LET rest == candidates \ Listed(list)
        mustSkip == {d \in rest : \E i \in 1..Len(list) :
                                        d.CreatedAt > list[i].CreatedAt}
        maySkip == {d \in rest : \A i \in 1..Len(list) :
                                        d.CreatedAt >= list[i].CreatedAt}
    IN /\ Listed(list) \subseteq candidates
       /\ NoRepeats(list)
       /\ NewestFirst(list)
       /\ Len(list) = Min(limit, Max(0, Cardinality(candidates) - offset))
       /\ mustSkip \subseteq maySkip
       /\ Cardinality(mustSkip) <= offset
       /\ Len(list) > 0 => Cardinality(maySkip) >= offset

LimitAsked(filter) == IF filter.Limit <= 0 THEN 20 ELSE filter.Limit
OffsetAsked(filter) == IF filter.Offset <= 0 THEN 0 ELSE filter.Offset

NoFilterFields(filter) ==
    /\ filter.InputLanguage = NilString
    /\ filter.DialogLanguage = NilString
    /\ filter.CEFRLevel = NilString

\* C8: a search with no filter fields returns the stored dialogs newest first
\* (CreatedAt descending), cut to Limit entries, a Limit of zero or less
\* counting as 20; with no Offset these are the Limit newest dialogs.
C8_NoFilterNewestFirstTruncated ==
    (Searched /\ NoFilterFields(reader.filter)) =>
        /\ IsWindow(reader.list, StoredDialogs, LimitAsked(reader.filter),
                    OffsetAsked(reader.filter))
        /\ reader.filter.Offset <= 0 =>
            \A d \in StoredDialogs \ Listed(reader.list) :
                \A i \in 1..Len(reader.list) :
                    d.CreatedAt <= reader.list[i].CreatedAt

\* Limit 0 on the store of NumSeeds dialogs: the 20 newest come back.
C8_Witness ==
    /\ Searched
    /\ NoFilterFields(reader.filter)
    /\ reader.filter.Limit = 0
    /\ reader.filter.Offset = 0
    /\ Cardinality(dialogs) > 20
    /\ Len(reader.list) = 20

\* A filter field constrains when it is set (read literally: the pointer is
\* not nil).
FieldPresent(ptr) == ptr.present
\* A filter field constrains when it is set to a non-empty string.
FieldPresentNonEmpty(ptr) == ptr.present /\ ptr.v # <<>>

MatchingPresent(filter) ==
    {d \in StoredDialogs :
        /\ FieldPresent(filter.InputLanguage)
                => d.InputLanguage = filter.InputLanguage.v
        /\ FieldPresent(filter.DialogLanguage)
                => d.DialogLanguage = filter.DialogLanguage.v
        /\ FieldPresent(filter.CEFRLevel)
                => d.CEFRLevel = filter.CEFRLevel.v}

MatchingPresentNonEmpty(filter) ==
    {d \in StoredDialogs :
        /\ FieldPresentNonEmpty(filter.InputLanguage)
                => d.InputLanguage = filter.InputLanguage.v
        /\ FieldPresentNonEmpty(filter.DialogLanguage)
                => d.DialogLanguage = filter.DialogLanguage.v
        /\ FieldPresentNonEmpty(filter.CEFRLevel)
                => d.CEFRLevel = filter.CEFRLevel.v}

\* C9 as stated: every present field is an exact equality constraint, so the
\* result holds only dialogs equal to the filter in all present fields and,
\* within Limit and Offset, all of them.
C9_PresentFieldsConstrain ==
    Searched =>
        IsWindow(reader.list, MatchingPresent(reader.filter),
                 LimitAsked(reader.filter), OffsetAsked(reader.filter))

\* C9: every filter field that is present and not the empty string is an exact
\* equality constraint, a field that is absent or empty is none; the result
\* holds only stored dialogs matching all constraining fields and, within
\* Limit and Offset, every one of them.
C9_NonEmptyFieldsConstrain ==
    Searched =>
        IsWindow(reader.list, MatchingPresentNonEmpty(reader.filter),
                 LimitAsked(reader.filter), OffsetAsked(reader.filter))

\* Input language "ru" with a CEFR level set to "": both "ru" dialogs of the
\* four come back, of different levels.
C9_Witness ==
    /\ Searched
    /\ reader.filter.InputLanguage = StringPtr(Ru)
    /\ reader.filter.CEFRLevel = StringPtr(<<>>)
    /\ Cardinality(dialogs) = 4
    /\ Len(reader.list) = 2
    /\ reader.list[1].CEFRLevel # reader.list[2].CEFRLevel

(***************************************************************************)
(* C7: looking up an identifier no dialog has                              *)
(***************************************************************************)

\* A step in which handleDetail answers a request whose id parsed.
DetailAnswered ==
    /\ reader' # reader
    /\ reader'.op = "detail"
    /\ reader'.pc = "idle"
    /\ reader'.id # BadIDParam

IsStored(id) == \E r \in dialogs : r.id = id

C7_AnswerStep ==
    DetailAnswered =>
        /\ ~IsStored(reader'.id) =>
                \/ reader'.err = <<ErrNotFound>>
                \/ reader'.err = <<"select dialog">>
        /\ ErrorIs(reader'.err, ErrNotFound) =>
                /\ ~IsStored(reader'.id)
                /\ reader'.status = 404
                /\ reader'.dlg = EmptyDialog
        /\ (reader'.err # NoError /\ ~ErrorIs(reader'.err, ErrNotFound)) =>
                /\ reader'.status = 500
                /\ reader'.dlg = EmptyDialog
        /\ reader'.err = NoError =>
                /\ IsStored(reader'.id)
                /\ reader'.status = 200

\* C7: GetDialog with an identifier no stored dialog has returns ErrNotFound
\* (unless the query itself fails), no other failure is ErrNotFound, and
\* handleDetail answers ErrNotFound with 404 and every other lookup failure
\* with 500.
C7_UnknownIdIsNotFound == [][C7_AnswerStep]_vars

\* Dialogs are stored, and the lookup of an id none of them has got 404.
C7_Witness ==
    /\ reader.op = "detail"
    /\ reader.id = 99
    /\ reader.err = <<ErrNotFound>>
    /\ reader.status = 404
    /\ Cardinality(dialogs) >= 2

(***************************************************************************)
(* C1, C2, C3, C6: CreateDialog                                            *)
(***************************************************************************)

\* The input is one the validation is meant to let through.
PassesValidation(input) ==
    /\ input.InputLanguage # <<>>
    /\ input.DialogLanguage # <<>>
    /\ input.CEFRLevel # <<>>
    /\ Len(input.InputWords) > 0
    /\ \A i \in 1..Len(input.InputWords) :
            \E j \in 1..Len(input.InputWords[i]) :
                input.InputWords[i][j] \notin WhiteSpace

\* CreateDialog has returned to caller p.
Returned(p) == result[p].via = "service"
Succeeded(p) == Returned(p) /\ result[p].err = NoError

PositionsInArrayOrder(turns) ==
    \A i \in 1..Len(turns) : turns[i].Position = i - 1

C1_ResultShape ==
    \A p \in Procs :
        (Returned(p) /\ PassesValidation(result[p].input)) =>
            IF result[p].err = NoError
            THEN /\ Len(result[p].dlg.Turns) >= 1
                 /\ PositionsInArrayOrder(result[p].dlg.Turns)
            ELSE result[p].dlg = EmptyDialog

\* The tables change only in the step in which a call returns its dialog,
\* and then by the rows of that dialog: a call that returns an error has
\* changed nothing.
C1_StoreStep ==
    (dialogs' # dialogs \/ dialog_turns' # dialog_turns) =>
        \E p \in Procs :
            /\ pc[p] # "idle"
            /\ pc'[p] = "idle"
            /\ result'[p].err = NoError
            /\ dialogs' = dialogs \cup {DialogRow(result'[p].dlg)}
            /\ dialog_turns' = dialog_turns \cup TurnRowsOf(result'[p].dlg)

\* C1: for an input that passes validation CreateDialog returns a Dialog with
\* at least one turn and Positions 0..n-1 in array order, or an error and no
\* dialog, having left the store as it was, whatever the generator, the
\* synthesizer and the store did.
C1_DialogOrErrorAndNoWrite == []C1_ResultShape /\ [][C1_StoreStep]_vars

\* One call returned a dialog of two turns made from a reply with a dropped
\* turn; the other failed in the store after its dialog row was written.
C1_Witness ==
    /\ Succeeded("p1")
    /\ result["p1"].llm = "openai"
    /\ Len(result["p1"].dlg.Turns) = 2
    /\ Returned("p2")
    /\ PassesValidation(result["p2"].input)
    /\ result["p2"].err = <<"persist dialog", "insert turn">>
    /\ Len(result["p2"].stmts) >= 3
    /\ Cardinality(dialogs) = 1

C2_Rejected ==
    \A p \in Procs :
        (Returned(p) /\ ~PassesValidation(result[p].input)) =>
            /\ ErrorIs(result[p].err, ErrInvalidInput)
            /\ result[p].dlg = EmptyDialog
            /\ result[p].log = <<>>
            /\ result[p].stmts = <<>>
            /\ result[p].llm = "none"
            /\ result[p].tts = "none"

C2_RejectStep ==
    \A p \in Procs :
        (result'[p] # result[p] /\ result'[p].via = "service"
                /\ ~PassesValidation(result'[p].input)) =>
            /\ pc[p] = "idle"
            /\ pc'[p] = "idle"
            /\ UNCHANGED <<dialogs, dialog_turns, tx>>

\* C2: with an empty InputLanguage, DialogLanguage or CEFRLevel, no input
\* words, or a blank input word, CreateDialog fails with the invalid-input
\* error and calls neither the generator, nor the synthesizer, nor the store.
C2_InvalidInputStopsEarly == []C2_Rejected /\ [][C2_RejectStep]_vars

\* An input whose second word is blank has been rejected.
C2_Witness ==
    /\ Returned("p1")
    /\ Len(result["p1"].input.InputWords) = 2
    /\ result["p1"].input.InputWords[2] = <<" ", "\t">>
    /\ result["p1"].err = <<"validate input", "empty word provided", ErrInvalidInput>>

InStore(p) == pc[p] \in {"begin", "insertDialog", "insertTurn", "commit"}

\* C3: within a CreateDialog call Create is invoked only after the generator
\* and then the synthesizer succeeded; after a failed generation (zero usable
\* turns included) neither the synthesizer nor Create is invoked, after a
\* failed synthesis Create is not.
C3_CreateOnlyAfterSynthesis ==
    \A p \in Procs :
        /\ (call[p].via = "service" /\ (InStore(p) \/ tx[p].open)) =>
                call[p].log = <<"generate ok", "synthesize ok">>
        /\ (call[p].via = "service" /\ pc[p] = "synthesize") =>
                call[p].log = <<"generate ok">>
        /\ (Returned(p) /\ PassesValidation(result[p].input)) =>
                /\ result[p].log \in
                        { <<"generate failed">>,
                          <<"generate ok", "synthesize failed">>,
                          <<"generate ok", "synthesize ok", "create failed">>,
                          <<"generate ok", "synthesize ok", "create ok">> }
                /\ result[p].err # NoError /\ result[p].err[1] = "generate dialog"
                        => /\ result[p].log = <<"generate failed">>
                           /\ result[p].tts = "none"
                           /\ result[p].stmts = <<>>
                /\ result[p].err # NoError /\ result[p].err[1] = "tts synthesize"
                        => /\ result[p].log = <<"generate ok", "synthesize failed">>
                           /\ result[p].stmts = <<>>
                /\ result[p].stmts # <<>>
                        => SubSeq(result[p].log, 1, 2)
                                = <<"generate ok", "synthesize ok">>

\* Synthesis failed on the turn of index 1 of a two-turn dialog; one call
\* before had zero usable turns.
C3_Witness ==
    /\ Returned("p1")
    /\ result["p1"].err = <<"tts synthesize", "elevenlabs synthesize turn", "1",
                            "call elevenlabs">>
    /\ Len(result["p1"].arg.Turns) = 2
    /\ Returned("p2")
    /\ result["p2"].err = <<"generate dialog",
                            "openai returned empty turns after validation">>

WordsOf(dlg) == {dlg.InputWords[i] : i \in 1..Len(dlg.InputWords)}
TrimmedWordsOf(dlg) == {TrimSpace(dlg.InputWords[i]) : i \in 1..Len(dlg.InputWords)}

\* C6 as stated: the keys of Translations in a returned Dialog are exactly
\* its InputWords.
C6_KeysAreInputWords ==
    \A p \in Procs :
        Succeeded(p) => DOMAIN result[p].dlg.Translations = WordsOf(result[p].dlg)

\* C6: in a Dialog returned by CreateDialog the keys of Translations are
\* exactly the InputWords trimmed of outer white space when the OpenAI client
\* generated it (so exactly the InputWords when none has outer white space),
\* and Translations is empty when the stub client did.
C6_KeysAreTrimmedInputWords ==
    \A p \in Procs :
        Succeeded(p) =>
            /\ result[p].llm = "openai" =>
                    DOMAIN result[p].dlg.Translations = TrimmedWordsOf(result[p].dlg)
            /\ result[p].llm = "stub" => DOMAIN result[p].dlg.Translations = {}
            /\ result[p].llm \in {"openai", "stub"}

\* The OpenAI client generated a dialog for " casa" and "perro": "casa" is a
\* key, " casa" is not.
C6_Witness ==
    /\ Succeeded("p1")
    /\ result["p1"].llm = "openai"
    /\ result["p1"].dlg.InputWords = <<SpaceCasa, Perro>>
    /\ DOMAIN result["p1"].dlg.Translations = {Casa, Perro}
    /\ result["p1"].dlg.Translations[Casa] = House

(***************************************************************************)
(* C11: parseWords is a function of its argument                           *)
(***************************************************************************)

MaxSynthTurns == 3

\* A turn as a caller hands it over: without audio, with or without an ID.
SynthTurn(id, position) == DialogTurn(id, Ana, Hola, <<>>, position)

SynthTurns == {SynthTurn(NilUUID, 0), SynthTurn(7, 3)}

SynthDialogs ==
    {[EmptyDialog EXCEPT !.ID = 1, !.Turns = ts] :
        ts \in UNION {[1..n -> SynthTurns] : n \in 0..MaxSynthTurns}}

\* What the provider may do with a request.
ProviderAnswers ==
    {ProviderAnswer(TRUE, 0, <<>>),
     ProviderAnswer(FALSE, 200, AudioBytes),
     ProviderAnswer(FALSE, 200, <<>>),
     ProviderAnswer(FALSE, 300, AudioBytes),
     ProviderAnswer(FALSE, 400, <<"e">>),
     ProviderAnswer(FALSE, 500, <<"e">>)}

InitSynth ==
    /\ WordsIdle
    /\ StoreEmpty
    /\ CallersIdle
    /\ reader = IdleReader
    /\ ClientsIdle

\* ElevenLabsClient.SynthesizeDialog is called: the loop starts at the first
\* turn, or returns at once when there is none.
ElevenLabsStart(dlg) ==
    /\ synth = IdleSynth
    /\ synth' = [IdleSynth EXCEPT
                    !.client = "elevenlabs",
                    !.input = dlg,
                    !.dlg = dlg,
                    !.pc = IF Len(dlg.Turns) = 0 THEN "done" ELSE "loop",
                    !.i = IF Len(dlg.Turns) = 0 THEN 0 ELSE 1,
                    !.out = IF Len(dlg.Turns) = 0 THEN dlg ELSE EmptyDialog]
    /\ UNCHANGED <<gen, ping, storeVars, callVars, reader, wordVars>>

\* One pass of the loop: the request of turn synth.i and what follows it.
ElevenLabsRequest(answer) ==
    /\ synth.pc = "loop"
    /\ LET i == synth.i
           n == Len(synth.input.Turns)
           r == synthesizeText(answer)
           next == AfterTurn(r.err, i, n)
           dlg == IF r.err = NoError
                  THEN [synth.dlg EXCEPT !.Turns[i] =
                            ElevenLabsTurn(synth.input, i, r.audio)]
                  ELSE [synth.dlg EXCEPT !.Turns[i].ID =
                            TurnIDAssigned(synth.input, i)]
       IN synth' = [synth EXCEPT
                        !.requests = Append(@, i - 1),
                        !.answers = Append(@, answer),
                        !.dlg = dlg,
                        !.pc = IF next = "loop" THEN "loop" ELSE "done",
                        !.i = IF next = "loop" THEN i + 1 ELSE i,
                        !.err = IF next = "fail" THEN TurnError(i, r.err)
                                ELSE NoError,
                        !.out = IF next = "return" THEN dlg ELSE EmptyDialog]
    /\ UNCHANGED <<gen, ping, storeVars, callVars, reader, wordVars>>

\* StubClient.SynthesizeDialog is called and returns.
StubSynthesize(dlg) ==
    /\ synth = IdleSynth
    /\ synth' = [IdleSynth EXCEPT
                    !.client = "stub",
                    !.input = dlg,
                    !.dlg = StubSynthesizeDialog(dlg).dlg,
                    !.pc = "done",
                    !.out = StubSynthesizeDialog(dlg).dlg]
    /\ UNCHANGED <<gen, ping, storeVars, callVars, reader, wordVars>>

NextSynth ==
    \/ \E dlg \in SynthDialogs : ElevenLabsStart(dlg)
    \/ \E answer \in ProviderAnswers : ElevenLabsRequest(answer)
    \/ \E dlg \in SynthDialogs : StubSynthesize(dlg)

SpecSynth == InitSynth /\ [][NextSynth]_vars

\* The loop taken one request at a time returns what the call as a whole
\* returns for the same answers.
SynthReturned == synth.pc = "done"

AnswersSoFar ==
    [i \in 1..Len(synth.input.Turns) |->
        IF i <= Len(synth.answers) THEN synthesizeText(synth.answers[i])
        ELSE AudioOK]

StepsAgreeWithCall ==
    (SynthReturned /\ synth.client = "elevenlabs") =>
        LET whole == ElevenLabsSynthesizeDialog(synth.input, AnswersSoFar)
        IN /\ synth.err = whole.err
           /\ synth.out = whole.dlg
           /\ synth.requests = whole.requests

(***************************************************************************)
(* C12: what SynthesizeDialog returns                                      *)
(***************************************************************************)

IsEmbeddedAudio(url) ==
    Len(url) >= 2 /\ url[1] = "data:audio/mpeg;base64,"

IsPlaceholder(url) ==
    Len(url) >= 1 /\ url[1] = "/static/audio/placeholder.mp3"

SameTurn(in, out) ==
    /\ out.Speaker = in.Speaker
    /\ out.Text = in.Text
    /\ out.Position = in.Position
    /\ in.ID # NilUUID => out.ID = in.ID

\* C12: a successful SynthesizeDialog returns the turns of its input in the
\* same order, each with a non-nil ID and a non-empty AudioURL that is a
\* data URL or a placeholder; a failed one returns the empty Dialog.
C12_AllTurnsFilledOrNoDialog ==
    SynthReturned =>
        IF synth.err = NoError
        THEN /\ Len(synth.out.Turns) = Len(synth.input.Turns)
             /\ [synth.out EXCEPT !.Turns = <<>>]
                    = [synth.input EXCEPT !.Turns = <<>>]
             /\ \A i \in 1..Len(synth.input.Turns) :
                    /\ SameTurn(synth.input.Turns[i], synth.out.Turns[i])
                    /\ synth.out.Turns[i].ID # NilUUID
                    /\ synth.out.Turns[i].AudioURL # <<>>
                    /\ \/ IsEmbeddedAudio(synth.out.Turns[i].AudioURL)
                       \/ IsPlaceholder(synth.out.Turns[i].AudioURL)
        ELSE synth.out = EmptyDialog

\* ElevenLabs filled three turns, the first of which came without an ID.
C12_Witness ==
    /\ SynthReturned
    /\ synth.client = "elevenlabs"
    /\ synth.err = NoError
    /\ Len(synth.out.Turns) = 3
    /\ synth.input.Turns[1].ID = NilUUID
    /\ synth.out.Turns[1].ID # NilUUID
    /\ IsEmbeddedAudio(synth.out.Turns[3].AudioURL)

(***************************************************************************)
(* C13: an empty audio body                                                *)
(***************************************************************************)

AnsweredOK(answer) == ~answer.failed /\ answer.status < 400

\* C13: when every request is answered successfully, the call does not fail,
\* and a turn answered with an empty body has the placeholder of its index.
C13_EmptyAudioGetsPlaceholder ==
    (/\ SynthReturned
     /\ synth.client = "elevenlabs"
     /\ \A k \in 1..Len(synth.answers) : AnsweredOK(synth.answers[k]))
        => /\ synth.err = NoError
           /\ \A k \in 1..Len(synth.answers) :
                synth.answers[k].body = <<>> =>
                    synth.out.Turns[k].AudioURL = PlaceholderURL(k - 1)

(***************************************************************************)
(* C14: one request per turn, in order, none after a failure               *)
(***************************************************************************)

RequestFailed(answer) == answer.failed \/ answer.status >= 400

NamesIndex(err, k) ==
    /\ Len(err) >= 1 + Len(Itoa(k))
    /\ err[1] = "elevenlabs synthesize turn"
    /\ SubSeq(err, 2, 1 + Len(Itoa(k))) = Itoa(k)

\* C14: the requests are those of turns 0, 1, 2, ... in that order, one per
\* turn; a call that returns without error has sent one for every turn; and
\* when the request of turn k fails, the call has returned an error naming k
\* and k's request is the last one.
C14_OneRequestPerTurnStopAtFailure ==
    synth.client = "elevenlabs" =>
        /\ synth.requests = RequestsUpTo(Len(synth.requests))
        /\ Len(synth.requests) <= Len(synth.input.Turns)
        /\ Len(synth.answers) = Len(synth.requests)
        /\ (SynthReturned /\ synth.err = NoError) =>
                Len(synth.requests) = Len(synth.input.Turns)
        /\ \A k \in 1..Len(synth.answers) :
                RequestFailed(synth.answers[k]) =>
                    /\ SynthReturned
                    /\ NamesIndex(synth.err, k - 1)
                    /\ synth.out = EmptyDialog
                    /\ Len(synth.requests) = k

\* Three turns; the second request is answered with status 500.
C14_Witness ==
    /\ SynthReturned
    /\ Len(synth.input.Turns) = 3
    /\ synth.requests = <<0, 1>>
    /\ synth.answers[2] = ProviderAnswer(FALSE, 500, <<"e">>)
    /\ NamesIndex(synth.err, 1)

(***************************************************************************)
(* C15: nothing is tried twice                                             *)
(***************************************************************************)

Event(step, ok) ==
    IF step = "generate" THEN (IF ok THEN "generate ok" ELSE "generate failed")
    ELSE IF step = "synthesize"
    THEN (IF ok THEN "synthesize ok" ELSE "synthesize failed")
    ELSE (IF ok THEN "create ok" ELSE "create failed")

\* How many events of a call's log are about `step`.
TimesInvoked(log, step) ==
    Cardinality({i \in 1..Len(log) :
                    log[i] \in {Event(step, TRUE), Event(step, FALSE)}})

Steps == {"generate", "synthesize", "create"}

IsFailure(event) == \E step \in Steps : event = Event(step, FALSE)

AtMostOnceEach(log, requests, stmts) ==
    /\ \A step \in Steps : TimesInvoked(log, step) <= 1
    /\ \A i, j \in 1..Len(requests) : requests[i] = requests[j] => i = j
    /\ Cardinality({i \in 1..Len(stmts) : stmts[i].op = "begin"}) <= 1

\* C15: in one CreateDialog call the generator, the synthesizer and Create
\* are each invoked at most once and no turn is requested twice; a failed
\* step is the last step of the call, and the call returns an error.
C15_NoRetryFirstFailureEnds ==
    \A p \in Procs :
        /\ call[p].via = "service" =>
                /\ AtMostOnceEach(call[p].log, call[p].requests, call[p].stmts)
                /\ \A i \in 1..Len(call[p].log) : ~IsFailure(call[p].log[i])
        /\ Returned(p) =>
                /\ AtMostOnceEach(result[p].log, result[p].requests,
                                  result[p].stmts)
                /\ \A i \in 1..Len(result[p].log) :
                        IsFailure(result[p].log[i]) =>
                            /\ i = Len(result[p].log)
                            /\ result[p].err # NoError
                            /\ result[p].dlg = EmptyDialog

\* The provider failed on the second turn: one generation, one synthesis
\* with two requests, no Create.
C15_Witness ==
    /\ Returned("p1")
    /\ result["p1"].log = <<"generate ok", "synthesize failed">>
    /\ result["p1"].requests = <<0, 1>>
    /\ result["p1"].stmts = <<>>
    /\ result["p1"].err # NoError

(***************************************************************************)
(* C16: stored dialogs never change                                        *)
(***************************************************************************)

StoredIDs == {r.id : r \in dialogs}

TurnRowsOfID(id) == {t \in dialog_turns : t.dialog_id = id}

\* No step changes or removes a committed row, adds a turn to a dialog that
\* is already stored, or changes what was recorded as created.
StoreOnlyGrows ==
    /\ dialogs \subseteq dialogs'
    /\ \A id \in StoredIDs : TurnRowsOfID(id)' = TurnRowsOfID(id)
    /\ \A id \in StoredIDs :
            /\ id \in DOMAIN created
            /\ id \in DOMAIN created'
            /\ created'[id] = created[id]

\* A GetDialog answer carries the dialog as it was created.
ReadsWhatWasCreated ==
    GotDialog' =>
        /\ reader'.id \in DOMAIN created'
        /\ reader'.dlg.ID = reader'.id
        /\ reader'.dlg.CreatedAt = created'[reader'.id].CreatedAt
        /\ reader'.dlg.InputWords = MarshalWords(created'[reader'.id].InputWords)
        /\ reader'.dlg.Translations
                = MarshalTranslations(created'[reader'.id].Translations)
        /\ reader'.dlg.Turns = InPositionOrder(created'[reader'.id].Turns)

\* C16: no step of Create, GetDialog or SearchDialogs changes or removes a
\* stored dialog or its turns: the stored set only grows, and every GetDialog
\* of a stored dialog returns the ID, CreatedAt, InputWords, Translations and
\* Turns fixed when it was created.
C16_StoredDialogsImmutable == [][StoreOnlyGrows /\ ReadsWhatWasCreated]_vars

\* Dialog 1 is read while dialog 7, created after it, is stored too.
C16_Witness ==
    /\ GotDialog
    /\ reader.id = 1
    /\ Len(reader.dlg.Turns) = 2
    /\ StoredIDs = {1, 7}

(***************************************************************************)
(* Two callers of Create and a reader of GetByID, interleaved              *)
(***************************************************************************)

\* Two dialogs with the same id and a third, each with more than one row.
ConcurrentDialogs ==
    { RepoDialog(1, LevelB1, <<Casa>>, (Casa :> House),
        <<DialogTurn(11, Ana, Hola, Placeholder, 0),
          DialogTurn(12, Luis, Adios, Placeholder, 1)>>, 1),
      RepoDialog(1, LevelC1, <<Perro>>, (Perro :> Dog),
        <<DialogTurn(41, Luis, Adios, Placeholder, 0)>>, 2),
      RepoDialog(3, LevelA1, <<Libro>>, <<>>,
        <<DialogTurn(31, Luis, Adios, Placeholder, 0),
          DialogTurn(32, Ana, Hola, Placeholder, 1)>>, 2) }

ConcurrentLookupIDs == {1, 3}

InitConcurrent ==
    /\ WordsIdle
    /\ StoreEmpty
    /\ CallersIdle
    /\ reader = IdleReader
    /\ ClientsIdle

NextConcurrent ==
    \/ \E p \in Procs, dlg \in ConcurrentDialogs : RepoCreate(p, dlg)
    \/ \E p \in Procs : BeginTx(p)
    \/ \E p \in Procs : InsertDialog(p)
    \/ \E p \in Procs : InsertDialogFails(p)
    \/ \E p \in Procs : InsertTurn(p)
    \/ \E p \in Procs : CommitTx(p)
    \/ \E p \in Procs : CommitTxFails(p)
    \/ \E id \in ConcurrentLookupIDs : DetailNotFound(id)
    \/ \E id \in ConcurrentLookupIDs : DetailFound(id)
    \/ DetailTurns
    \/ Respond

SpecConcurrent == InitConcurrent /\ [][NextConcurrent]_vars

(***************************************************************************)
(* C17: reads during concurrent creations                                  *)
(***************************************************************************)

\* The reader is between queryDialog and queryTurns, or has answered 200.
DialogRowSeen == reader.op = "detail" /\ reader.pc = "turns"

\* C17: whatever the interleaving of the two creations with the read, the
\* read answers not-found or the dialog with every one of its turns in
\* Position order; a dialog row the read has seen has all its turn rows
\* committed already; and the committed rows of each dialog are exactly the
\* rows of the Create that stored it, whatever the other caller did.
C17_ReadSeesWholeDialogOrNone ==
    /\ (reader.op = "detail" /\ reader.pc = "idle") =>
            \/ /\ reader.err = <<ErrNotFound>>
               /\ reader.dlg = EmptyDialog
            \/ /\ reader.err = NoError
               /\ reader.id \in DOMAIN created
               /\ Len(reader.dlg.Turns) = Len(created[reader.id].Turns)
               /\ reader.dlg.Turns = InPositionOrder(created[reader.id].Turns)
    /\ DialogRowSeen =>
            /\ reader.id \in DOMAIN created
            /\ TurnRowsOf(created[reader.id]) \subseteq dialog_turns
    /\ \A id \in DOMAIN created :
            /\ {r \in dialogs : r.id = id} = {DialogRow(created[id])}
            /\ {t \in dialog_turns : t.dialog_id = id} = TurnRowsOf(created[id])

\* Dialog 1 was read whole while the other caller's transaction held the
\* dialog row and one of the two turn rows of dialog 3.
C17_Witness ==
    /\ GotDialog
    /\ reader.id = 1
    /\ Len(reader.dlg.Turns) = 2
    /\ tx["p2"].open
    /\ Cardinality(tx["p2"].dialogs) = 1
    /\ Cardinality(tx["p2"].turns) = 1
    /\ 3 \notin DOMAIN created

\* Dialog 3 was looked up and not found while its rows were being written.
C17_WitnessNotFound ==
    /\ reader.op = "detail"
    /\ reader.pc = "idle"
    /\ reader.id = 3
    /\ reader.err = <<ErrNotFound>>
    /\ tx["p2"].open
    /\ Cardinality(tx["p2"].turns) = 2

(***************************************************************************)
(* C18: the answer to a failed creation                                    *)
(***************************************************************************)

FailedCreation(p) == Returned(p) /\ result[p].err # NoError

Parts(text) == {text[i] : i \in 1..Len(text)}

\* C18: every failed CreateDialog is answered with status 500 and the same
\* fixed body, whatever the error; no part of the error is in the body.
C18_SameAnswerForEveryFailure ==
    \A p, q \in Procs :
        FailedCreation(p) =>
            /\ result[p].http.status = 500
            /\ result[p].http.body = <<"internal server error", "\n">>
            /\ Parts(result[p].http.body) \cap Parts(result[p].err) = {}
            /\ FailedCreation(q) => result[q].http = result[p].http

\* One creation was rejected as invalid input, the other failed in the store
\* on its second turn row; both got the same answer.
C18_Witness ==
    /\ FailedCreation("p1")
    /\ FailedCreation("p2")
    /\ result["p1"].err[1] = "validate input"
    /\ result["p2"].err = <<"persist dialog", "insert turn">>
    /\ result["p1"].http = result["p2"].http
    /\ result["p1"].http.status = 500

(***************************************************************************)
(* GenerateDialog of the OpenAI client on its own                          *)
(***************************************************************************)

MaxReplyTurns == 3

ReplySpeakers == {<<>>, <<" ">>, Ana, <<" ">> \o Ana \o <<" ">>}
ReplyTexts == {<<>>, Hola, <<" ">> \o Hola}

ReplyTurns == {ParsedTurn(speaker, text) :
                    speaker \in ReplySpeakers, text \in ReplyTexts}

\* What the endpoint's dialog JSON holds: an error status, or turns of any
\* of the kinds above.
GenReplies ==
    {LLMReply(500, <<>>, <<>>, <<>>)}
        \cup {LLMReply(200, <<"T">>, turns, (Casa :> House)) :
                turns \in UNION {[1..n -> ReplyTurns] : n \in 0..MaxReplyTurns}}

\* A reply with two usable turns, and the statuses an answer can carry.
GoodReply(status) ==
    LLMReply(status, <<"T">>, <<ParsedTurn(Ana, Hola), ParsedTurn(Luis, Adios)>>,
             (Casa :> House))

AnswerStatuses == {200, 204, 299, 300, 304, 399, 400, 404, 500}

AnswerKinds == {"not json", "error", "no choices", "bad content", "dialog"}

\* The answers of the endpoint: each dialog JSON above with status 200, and
\* every kind of body with every status, and a failed transport.
GenAnswers ==
    {OpenAIAnswer(FALSE, "dialog", reply) : reply \in GenReplies}
        \cup {OpenAIAnswer(FALSE, kind, GoodReply(status)) :
                kind \in AnswerKinds, status \in AnswerStatuses}
        \cup {OpenAIAnswer(TRUE, "none", GoodReply(0))}

InitGen ==
    /\ WordsIdle
    /\ StoreEmpty
    /\ CallersIdle
    /\ reader = IdleReader
    /\ ClientsIdle

\* OpenAIClient.GenerateDialog is called for the words and returns.
GenerateCall(inputWords, answer) ==
    /\ gen = IdleGen
    /\ \E generated \in GenerateDialog(
                            [NoInput EXCEPT !.InputWords = inputWords], answer) :
            gen' = [IdleGen EXCEPT !.done = TRUE, !.client = "openai",
                                   !.words = inputWords,
                                   !.failed = answer.failed,
                                   !.kind = answer.kind,
                                   !.reply = answer.reply,
                                   !.err = generated.err,
                                   !.out = generated.dlg]
    /\ UNCHANGED <<synth, ping, storeVars, callVars, reader, wordVars>>

\* The word lists asked for, and the translations maps of the dialog JSON:
\* every map from some of the keys below to an empty or a non-empty value.
GenWordLists == {<<Casa>>, <<SpaceCasa, Perro>>}

TranslationKeys == {Casa, UpperCasa, AllCapsCasa, SpaceCasa, Libro}

TranslationValues == {<<>>, House, Home}

TranslationMaps ==
    UNION {[keys -> TranslationValues] : keys \in SUBSET TranslationKeys}

TranslationAnswers ==
    {OpenAIAnswer(FALSE, "dialog",
        LLMReply(200, <<"T">>, <<ParsedTurn(Ana, Hola)>>, translations)) :
            translations \in TranslationMaps}

\* Titles of the dialog JSON, and first turns of 4, 50 and 51 one-byte
\* characters and of 26 two-byte characters, alone and after a one-byte one.
ReplyTitles == {<<>>, <<" ">>, <<" ", "T", " ">>}

Repeated(ch, n) == [i \in 1..n |-> ch]

FirstTexts ==
    {Hola, Repeated("x", 50), Repeated("x", 51), Repeated(WideChar, 26),
     <<"a">> \o Repeated(WideChar, 25)}

TitleAnswers ==
    {OpenAIAnswer(FALSE, "dialog",
        LLMReply(200, title, <<ParsedTurn(Ana, text)>>, (Casa :> House))) :
            title \in ReplyTitles, text \in FirstTexts}

\* GenerateDialog is called once more with the same words, and the endpoint
\* answers as it did the first time.
GenerateAgain ==
    /\ gen.done
    /\ gen.client = "openai"
    /\ ~gen.again.done
    /\ \E generated \in GenerateDialog(
                [NoInput EXCEPT !.InputWords = gen.words],
                OpenAIAnswer(gen.failed, gen.kind, gen.reply)) :
            gen' = [gen EXCEPT !.again = [done |-> TRUE, err |-> generated.err,
                                          out |-> generated.dlg]]
    /\ UNCHANGED <<synth, ping, storeVars, callVars, reader, wordVars>>

\* The stub generator is called with up to five words.
MaxStubWords == 5

StubWordLists ==
    UNION {[1..n -> {Casa, Perro}] : n \in 0..MaxStubWords}

StubGenerateCall(params) ==
    /\ gen = IdleGen
    /\ \E generated \in StubGenerateDialog(params) :
            gen' = [IdleGen EXCEPT !.done = TRUE, !.client = "stub",
                                   !.words = params.InputWords,
                                   !.err = generated.err,
                                   !.out = generated.dlg]
    /\ UNCHANGED <<synth, ping, storeVars, callVars, reader, wordVars>>

NextGen ==
    \/ \E inputWords \in StubWordLists, language \in {Es, <<"x", "x">>} :
            StubGenerateCall([NoInput EXCEPT !.InputWords = inputWords,
                                             !.DialogLanguage = language,
                                             !.CEFRLevel = LevelB1])
    \/ \E answer \in GenAnswers : GenerateCall(<<Casa>>, answer)
    \/ \E inputWords \in GenWordLists, answer \in TranslationAnswers :
            GenerateCall(inputWords, answer)
    \/ \E answer \in TitleAnswers : GenerateCall(<<Casa>>, answer)
    \/ GenerateAgain

SpecGen == InitGen /\ [][NextGen]_vars

(***************************************************************************)
(* C19: Position in the dialog the client returns                          *)
(***************************************************************************)

Generated == gen.done /\ gen.client = "openai" /\ gen.err = NoError

\* C19: each turn of the returned dialog has its index in the returned
\* sequence as Position.
C19_PositionIsIndexInReturned ==
    Generated =>
        \A j \in 1..Len(gen.out.Turns) : gen.out.Turns[j].Position = j - 1

(***************************************************************************)
(* C20: which turns the client keeps                                       *)
(***************************************************************************)

\* The indexes of the reply's turns with a speaker and a text.
Usable(turns) ==
    {i \in 1..Len(turns) :
        Trimmed(turns[i].Speaker) # <<>> /\ Trimmed(turns[i].Text) # <<>>}

\* The j-th of them, counted from the left.
KthUsable(turns, j) ==
    CHOOSE i \in Usable(turns) :
        Cardinality({h \in Usable(turns) : h < i}) = j - 1

\* C20: when the endpoint answered, the client returns the usable turns of
\* the reply, in the reply's order, speaker and text trimmed, and nothing
\* else; it fails exactly when there is no usable turn.
C20_KeepsUsableTurnsTrimmed ==
    (/\ gen.done
     /\ gen.client = "openai"
     /\ ~gen.failed
     /\ gen.kind = "dialog"
     /\ gen.reply.status < 400) =>
        IF Usable(gen.reply.Turns) = {}
        THEN gen.err # NoError /\ gen.out = EmptyDialog
        ELSE /\ gen.err = NoError
             /\ Len(gen.out.Turns) = Cardinality(Usable(gen.reply.Turns))
             /\ \A j \in 1..Len(gen.out.Turns) :
                    LET turn == gen.reply.Turns[KthUsable(gen.reply.Turns, j)]
                    IN /\ gen.out.Turns[j].Speaker = Trimmed(turn.Speaker)
                       /\ gen.out.Turns[j].Text = Trimmed(turn.Text)

\* Of three turns the first has a blank speaker and is dropped; the other
\* two come back trimmed.
C20_Witness ==
    /\ Generated
    /\ gen.reply.Turns = <<ParsedTurn(<<" ">>, Hola),
                           ParsedTurn(<<" ">> \o Ana \o <<" ">>, <<" ">> \o Hola),
                           ParsedTurn(Ana, Hola)>>
    /\ Len(gen.out.Turns) = 2
    /\ gen.out.Turns[1].Speaker = Ana
    /\ gen.out.Turns[1].Text = Hola

(***************************************************************************)
(* C21: the answers GenerateDialog rejects                                 *)
(***************************************************************************)

\* The answer is one the client is to reject.
BadAnswer ==
    \/ gen.failed
    \/ gen.reply.status < 200
    \/ gen.reply.status > 299
    \/ gen.kind # "dialog"
    \/ Usable(gen.reply.Turns) = {}

\* C21: on a failed transport, a status outside 200..299, a body that is no
\* JSON, an error field, no choices or no usable turn, GenerateDialog returns
\* an error and the empty Dialog.
C21_RejectsEveryBadAnswer ==
    (gen.done /\ gen.client = "openai" /\ BadAnswer) =>
        gen.err # NoError /\ gen.out = EmptyDialog

(***************************************************************************)
(* C22: which translation a word gets                                      *)
(***************************************************************************)

\* The input words without their outer white space.
AskedWords == {Trimmed(gen.words[i]) : i \in 1..Len(gen.words)}

SameUpToCase(a, b) ==
    /\ Len(a) = Len(b)
    /\ \A i \in 1..Len(a) : ToLowerChar(a[i]) = ToLowerChar(b[i])

\* The keys of the model's map equal to the word up to case.
FoldKeys(word, translations) ==
    {k \in DOMAIN translations : SameUpToCase(k, word)}

\* The same, outer white space of the key set aside, with a translation.
FilledFoldKeys(word, translations) ==
    {k \in DOMAIN translations :
        SameUpToCase(Trimmed(k), word) /\ translations[k] # <<>>}

\* C22 as stated: an exact key decides; only without one a key equal up to
\* case does; without either the word maps to the empty string; and no
\* other key is in the result.
C22_ExactKeyThenFoldedKey ==
    Generated =>
        /\ DOMAIN gen.out.Translations = AskedWords
        /\ \A word \in AskedWords :
            IF word \in DOMAIN gen.reply.Translations
            THEN gen.out.Translations[word] = gen.reply.Translations[word]
            ELSE IF FoldKeys(word, gen.reply.Translations) # {}
            THEN gen.out.Translations[word] \in
                    {gen.reply.Translations[k] :
                        k \in FoldKeys(word, gen.reply.Translations)}
            ELSE gen.out.Translations[word] = <<>>

\* C22: an exact key with a non-empty value decides; otherwise a key that
\* equals the word up to case and outer white space and has a non-empty value
\* does; otherwise the word maps to the empty string; and the result's keys
\* are the trimmed input words, no other key of the model's map.
C22_FilledExactKeyThenFilledFoldedKey ==
    Generated =>
        /\ DOMAIN gen.out.Translations = AskedWords
        /\ \A word \in AskedWords :
            IF /\ word \in DOMAIN gen.reply.Translations
               /\ gen.reply.Translations[word] # <<>>
            THEN gen.out.Translations[word] = gen.reply.Translations[word]
            ELSE IF FilledFoldKeys(word, gen.reply.Translations) # {}
            THEN gen.out.Translations[word] \in
                    {gen.reply.Translations[k] :
                        k \in FilledFoldKeys(word, gen.reply.Translations)}
            ELSE gen.out.Translations[word] = <<>>

\* The exact key "casa" has no value, the key "Casa" has one: the word gets
\* it; "libro" was not asked for and is not in the result.
C22_Witness ==
    /\ Generated
    /\ gen.words = <<Casa>>
    /\ gen.reply.Translations = (Casa :> <<>>) @@ (UpperCasa :> House)
                                    @@ (Libro :> Home)
    /\ gen.out.Translations = (Casa :> House)

(***************************************************************************)
(* C27: the same call twice                                                *)
(***************************************************************************)

\* C27: a second run on the same words and the same response returns the
\* same Translations as the first.
C27_SameTranslationsTwice ==
    (Generated /\ gen.again.done) =>
        gen.again.out.Translations = gen.out.Translations

(***************************************************************************)
(* CreateDialog behind a generator that sets ids and positions as it likes *)
(***************************************************************************)

MaxGeneratedTurns == 3

\* Turns as a generator may return them: with or without an id, Positions
\* repeated, with gaps and out of order.
GeneratedTurns ==
    {DialogTurn(NilUUID, Ana, Hola, <<>>, 0),
     DialogTurn(50, Luis, Adios, <<>>, 2),
     DialogTurn(51, Ana, Adios, <<>>, 0)}

GeneratedDialogs ==
    {[EmptyDialog EXCEPT !.Title = <<"T">>, !.Turns = turns] :
        turns \in UNION {[1..n -> GeneratedTurns] : n \in 0..MaxGeneratedTurns}}

AssembleInput == CreateInput(Ru, Es, LevelB1, <<Casa>>)

InitAssemble ==
    /\ WordsIdle
    /\ StoreEmpty
    /\ CallersIdle
    /\ reader = IdleReader
    /\ ClientsIdle

NextAssemble ==
    \/ Cardinality(dialogs) < MaxStored /\ CreateDialog("p1", AssembleInput)
    \/ \E generated \in GeneratedDialogs, now \in Times :
            GenerateOther("p1", generated, now)
    \/ SynthesizeStub("p1")
    \/ BeginTx("p1")
    \/ InsertDialog("p1")
    \/ InsertTurn("p1")
    \/ InsertTurnFails("p1")
    \/ CommitTx("p1")

SpecAssemble == InitAssemble /\ [][NextAssemble]_vars

(***************************************************************************)
(* C23: the dialog handed to the synthesizer                               *)
(***************************************************************************)

AtSynthesizer(p) == call[p].via = "service" /\ pc[p] = "synthesize"

\* C23: when SynthesizeDialog is called, the dialog's turns are the
\* generator's in the same order with the same Speaker and Text, the turn at
\* index i has Position i and a non-nil ID, and an ID the generator set is
\* kept.
C23_PositionsAndIDsBeforeSynthesis ==
    \A p \in Procs :
        AtSynthesizer(p) =>
            /\ Len(call[p].dlg.Turns) = Len(call[p].generated)
            /\ \A i \in 1..Len(call[p].generated) :
                LET before == call[p].generated[i]
                    after == call[p].dlg.Turns[i]
                IN /\ after.Position = i - 1
                   /\ after.ID # NilUUID
                   /\ before.ID # NilUUID => after.ID = before.ID
                   /\ after.Speaker = before.Speaker
                   /\ after.Text = before.Text

\* The generator returned Positions 2, 0, 0 and set the ids of the first and
\* the last turn only.
C23_Witness ==
    /\ AtSynthesizer("p1")
    /\ call["p1"].generated = <<DialogTurn(50, Luis, Adios, <<>>, 2),
                                DialogTurn(NilUUID, Ana, Hola, <<>>, 0),
                                DialogTurn(51, Ana, Adios, <<>>, 0)>>
    /\ call["p1"].dlg.Turns[1].ID = 50
    /\ call["p1"].dlg.Turns[2].ID \notin {NilUUID, 50, 51}
    /\ call["p1"].dlg.Turns[3].Position = 2

(***************************************************************************)
(* C24: the Title of a generated dialog                                    *)
(***************************************************************************)

\* The first 50 characters of a text and an ellipsis, or the text when it
\* has no more than 50 characters.
Excerpt(text) ==
    IF Len(text) > 50 THEN SubSeq(text, 1, 50) \o <<"...">> ELSE text

\* C24: the Title is the model's title trimmed when that is not empty, else
\* the excerpt of the first turn's text; it is never empty.
C24_TitleOrExcerptOfFirstTurn ==
    Generated =>
        /\ gen.out.Title # <<>>
        /\ gen.out.Title =
                IF Trimmed(gen.reply.Title) # <<>> THEN Trimmed(gen.reply.Title)
                ELSE Excerpt(gen.out.Turns[1].Text)

\* What holds: the same for a first turn of one-byte characters.
C24_TitleOrExcerptOfOneByteText ==
    (Generated /\ ByteLen(gen.out.Turns[1].Text) = Len(gen.out.Turns[1].Text)) =>
        /\ gen.out.Title # <<>>
        /\ gen.out.Title =
                IF Trimmed(gen.reply.Title) # <<>> THEN Trimmed(gen.reply.Title)
                ELSE Excerpt(gen.out.Turns[1].Text)

(***************************************************************************)
(* C25: the stub generator                                                 *)
(***************************************************************************)

\* The word stands somewhere in the text.
OccursIn(word, text) ==
    \E i \in 0..(Len(text) - Len(word)) :
        SubSeq(text, i + 1, i + Len(word)) = word

\* C25: for a non-empty word list the stub generator succeeds with
\* max(4, number of words) turns, and every input word occurs in the text of
\* some turn; for an empty list it returns an error.
C25_StubTurnsCoverTheWords ==
    (gen.done /\ gen.client = "stub") =>
        IF gen.words = <<>>
        THEN gen.err # NoError /\ gen.out = EmptyDialog
        ELSE /\ gen.err = NoError
             /\ Len(gen.out.Turns) =
                    (IF Len(gen.words) > 4 THEN Len(gen.words) ELSE 4)
             /\ \A w \in 1..Len(gen.words) :
                    \E t \in 1..Len(gen.out.Turns) :
                        OccursIn(gen.words[w], gen.out.Turns[t].Text)

\* Five words, the last one different from the others: five turns, and the
\* fifth turn is the one that has the last word.
C25_Witness ==
    /\ gen.done
    /\ gen.client = "stub"
    /\ gen.words = <<Casa, Casa, Casa, Casa, Perro>>
    /\ gen.err = NoError
    /\ Len(gen.out.Turns) = 5
    /\ OccursIn(Perro, gen.out.Turns[5].Text)
    /\ \A t \in 1..4 : ~OccursIn(Perro, gen.out.Turns[t].Text)

\* No words: the error, and no dialog.
C25_WitnessNoWords ==
    /\ gen.done
    /\ gen.client = "stub"
    /\ gen.words = <<>>
    /\ gen.err = <<"input words required">>
    /\ gen.out = EmptyDialog

(***************************************************************************)
(* The application: one caller creates dialogs, one reader looks them up   *)
(***************************************************************************)

AppInputs ==
    {CreateInput(Ru, Es, LevelB1, <<Casa>>),
     CreateInput(Ru, Es, LevelX9, <<Casa>>)}

\* Two turns under a title; one turn without a title.
AppReplies ==
    {LLMReply(200, <<"T">>, <<ParsedTurn(Ana, Hola), ParsedTurn(Luis, Adios)>>,
              (Casa :> House)),
     LLMReply(200, <<>>, <<ParsedTurn(Ana, Hola)>>, (Casa :> House))}

\* An id no dialog has.
UnknownID == IDSpace

\* Dialogs the store can hold before the caller stops creating.
AppMaxStored == 2

InitApp ==
    /\ WordsIdle
    /\ StoreEmpty
    /\ CallersIdle
    /\ reader = IdleReader
    /\ ClientsIdle

NextApp ==
    \/ \E input \in AppInputs :
            Cardinality(dialogs) < AppMaxStored /\ CreateDialog("p1", input)
    \/ \E reply \in AppReplies, now \in Times : GenerateOpenAI("p1", reply, now)
    \/ \E now \in Times : GenerateStub("p1", now)
    \/ SynthesizeStub("p1")
    \/ BeginTx("p1")
    \/ InsertDialog("p1")
    \/ InsertDialogFails("p1")
    \/ InsertTurn("p1")
    \/ CommitTx("p1")
    \/ \E r \in dialogs : DetailFound(r.id)
    \/ DetailNotFound(UnknownID)
    \/ DetailTurns
    \/ SearchDialogs(NoFilter)
    \/ Respond

SpecApp == InitApp /\ [][NextApp]_vars

(***************************************************************************)
(* C26: the levels of the stored dialogs                                   *)
(***************************************************************************)

\* CreateDialog has returned for an input whose level is not one of the six.
ReturnedForUnknownLevel(p) ==
    /\ result[p].via = "service"
    /\ result[p].input.CEFRLevel # <<>>
    /\ result[p].input.CEFRLevel \notin CEFRLevels

\* C26: every dialog in the store has one of the six levels; a CreateDialog
\* with a non-empty level outside them passes validation, generation and
\* synthesis, fails at the store's write and adds no dialog.
C26_OnlyKnownLevelsStored ==
    /\ \A r \in dialogs : r.cefr_level \in CEFRLevels
    /\ \A id \in DOMAIN created : created[id].CEFRLevel \in CEFRLevels
    /\ \A p \in Procs :
        /\ (call[p].input.CEFRLevel # <<>>
                /\ call[p].input.CEFRLevel \notin CEFRLevels) =>
            /\ pc[p] \in {"generate", "synthesize", "begin", "insertDialog"}
            /\ tx[p].dialogs = {}
        /\ ReturnedForUnknownLevel(p) =>
            /\ result[p].err # NoError
            /\ result[p].dlg = EmptyDialog
            /\ result[p].log = <<"generate ok", "synthesize ok", "create failed">>
                    => result[p].err = <<"persist dialog", "insert dialog">>
            /\ result[p].log # <<"generate ok", "synthesize ok", "create ok">>

\* The level X9 went through generation and synthesis, the insert failed, and
\* the store is empty.
C26_Witness ==
    /\ ReturnedForUnknownLevel("p1")
    /\ result["p1"].input.CEFRLevel = LevelX9
    /\ result["p1"].log = <<"generate ok", "synthesize ok", "create failed">>
    /\ result["p1"].err = <<"persist dialog", "insert dialog">>
    /\ dialogs = {}
    /\ dialog_turns = {}

(***************************************************************************)
(* C28: the turns of Search and the turns of GetByID                       *)
(***************************************************************************)

\* The turns GetByID returns for the dialog on the committed rows.
TurnsOfGetByID(id) ==
    TurnsByPosition({t \in ReadCommitted(dialog_turns, PendingTurns) :
                        t.dialog_id = id})

\* The turns Search returns for the dialog row.
TurnsOfSearch(row) == ScanSearchRow(row).Turns

\* C28: for every stored dialog the turns Search decodes from the dialog
\* row's JSON column are the turns GetByID reads from the turn rows in
\* Position order: the same turns in the same order, with the same ID,
\* Speaker, Text, AudioURL and Position; and so are the turns the two
\* requests answer with.
C28_BothReadsSameTurns ==
    /\ \A r \in dialogs : TurnsOfSearch(r) = TurnsOfGetByID(r.id)
    /\ (reader.op = "detail" /\ reader.pc = "idle" /\ reader.err = NoError) =>
            \E r \in dialogs :
                r.id = reader.id /\ reader.dlg.Turns = TurnsOfSearch(r)
    /\ (reader.op = "search" /\ reader.err = NoError) =>
            \A i \in 1..Len(reader.list) :
                reader.list[i].Turns = TurnsOfGetByID(reader.list[i].ID)

\* GetDialog has answered with a dialog of several turns with their audio.
C28_Witness ==
    /\ reader.op = "detail"
    /\ reader.pc = "idle"
    /\ reader.err = NoError
    /\ Len(reader.dlg.Turns) >= 2
    /\ \A i \in 1..Len(reader.dlg.Turns) :
        /\ reader.dlg.Turns[i].Position = i - 1
        /\ reader.dlg.Turns[i].AudioURL # <<>>
        /\ reader.dlg.Turns[i].ID # NilUUID
    /\ \E r \in dialogs :
        r.id = reader.id /\ TurnsOfSearch(r) = reader.dlg.Turns

\* SearchDialogs has answered with two dialogs, one of them of several turns.
C28_WitnessSearch ==
    /\ reader.op = "search"
    /\ reader.err = NoError
    /\ Len(reader.list) = 2
    /\ \E i \in 1..2 : Len(reader.list[i].Turns) >= 2

(***************************************************************************)
(* C29: the Title after the store                                          *)
(***************************************************************************)

\* C29: the Title CreateDialog returned with a dialog is the Title a later
\* GetDialog or SearchDialogs returns for it.
C29_TitleSurvivesTheStore ==
    /\ (reader.op = "detail" /\ reader.pc = "idle" /\ reader.err = NoError
            /\ reader.id \in DOMAIN created) =>
            reader.dlg.Title = created[reader.id].Title
    /\ (reader.op = "search" /\ reader.err = NoError) =>
            \A i \in 1..Len(reader.list) :
                reader.list[i].ID \in DOMAIN created =>
                    reader.list[i].Title = created[reader.list[i].ID].Title

\* What holds: every dialog read from the store has the empty Title.
C29_TitleIsNotStored ==
    /\ (reader.op = "detail" /\ reader.pc = "idle" /\ reader.err = NoError) =>
            reader.dlg.Title = <<>>
    /\ (reader.op = "search" /\ reader.err = NoError) =>
            \A i \in 1..Len(reader.list) : reader.list[i].Title = <<>>

(***************************************************************************)
(* main: pingDB                                                            *)
(***************************************************************************)

maxAttempts == 10

\* What db.PingContext can return while the caller's context lives: nil, or
\* an error of the connection, or the error of its own 5 s timeout.
ConnectionRefused == <<"connection refused">>
DeadlineExceeded == <<"context deadline exceeded">>
ContextCanceled == <<"context canceled">>

PingOutcomes(cancelled) ==
    IF cancelled THEN {ContextCanceled, ConnectionRefused}
    ELSE {NoError, ConnectionRefused, DeadlineExceeded}

\* if err == nil { return nil }, else the select.
AfterPing(err) == IF err = NoError THEN "done" ELSE "select"

\* A plausible slip: the select has no case for ctx.Done().
AfterSelectTimerOnly(attempt, cancelled) ==
    IF attempt < maxAttempts THEN "ping" ELSE "done"

\* The select, then attempt++ and the loop's test: ctx.Done() returns; the
\* timer goes on to the next attempt, or past the last one to the return.
AfterSelect(attempt, cancelled) ==
    IF cancelled THEN "done"
    ELSE IF attempt < maxAttempts THEN "ping"
    ELSE "done"

\* pingDB is called; the caller's context lives.
InitPing ==
    /\ WordsIdle
    /\ StoreEmpty
    /\ CallersIdle
    /\ reader = IdleReader
    /\ synth = IdleSynth
    /\ gen = IdleGen
    /\ ping = [IdlePing EXCEPT !.pc = "ping", !.attempt = 1]

\* db.PingContext(pingCtx) returns err; nil ends pingDB.
PingContext(err) ==
    /\ ping.pc = "ping"
    /\ ping' = [ping EXCEPT !.pc = AfterPing(err),
                            !.err = err,
                            !.outcomes = Append(@, err),
                            !.returned = NoError]
    /\ UNCHANGED <<synth, gen, storeVars, callVars, reader, wordVars>>

\* The select after a failed attempt: ctx.Done() is closed, or the timer of
\* attempt * baseDelay fires first.
Select ==
    LET next == AfterSelect(ping.attempt, ping.cancelled) IN
    /\ ping.pc = "select"
    /\ ping' = [ping EXCEPT !.pc = next,
                            !.attempt = IF next = "ping" THEN @ + 1 ELSE @,
                            !.sawDone = ping.cancelled,
                            !.returned = IF next = "done"
                                         THEN <<"ping db">> \o ping.err
                                         ELSE NoError]
    /\ UNCHANGED <<synth, gen, storeVars, callVars, reader, wordVars>>

\* SIGINT or SIGTERM: signal.NotifyContext cancels the context of run.
Cancel ==
    /\ ping.pc \in {"ping", "select"}
    /\ ~ping.cancelled
    /\ ping' = [ping EXCEPT !.cancelled = TRUE]
    /\ UNCHANGED <<synth, gen, storeVars, callVars, reader, wordVars>>

PingStep == \E err \in PingOutcomes(ping.cancelled) : PingContext(err)

NextPing ==
    \/ PingStep
    \/ Select
    \/ Cancel

\* A ping returns within its 5 s timeout and the select within the timer's
\* delay; nothing says a signal ever comes.
SpecPing ==
    InitPing /\ [][NextPing]_vars /\ WF_vars(PingStep) /\ WF_vars(Select)

(***************************************************************************)
(* C30: pingDB terminates                                                  *)
(***************************************************************************)

Failures(outcomes) == {i \in 1..Len(outcomes) : outcomes[i] # NoError}

\* At most ten attempts, none after a success, none after the select has
\* seen the cancelled context; the results are nil for a success and
\* "ping db" around the last ping's error otherwise.
PingDBSafe ==
    /\ Len(ping.outcomes) <= maxAttempts
    /\ ping.attempt <= maxAttempts
    /\ \A i \in 1..Len(ping.outcomes) :
            ping.outcomes[i] = NoError =>
                /\ i = Len(ping.outcomes)
                /\ ping.pc = "done"
                /\ ping.returned = NoError
    /\ ping.sawDone =>
            /\ ping.pc = "done"
            /\ ping.returned = <<"ping db">> \o ping.outcomes[Len(ping.outcomes)]
    /\ (ping.pc = "done" /\ ping.returned = NoError) =>
            ping.outcomes[Len(ping.outcomes)] = NoError
    /\ (ping.pc = "done" /\ Failures(ping.outcomes) = 1..Len(ping.outcomes)) =>
            /\ ping.returned = <<"ping db">> \o ping.outcomes[Len(ping.outcomes)]
            /\ ping.sawDone \/ Len(ping.outcomes) = maxAttempts
    /\ (ping.pc # "done" /\ ~ping.sawDone) => ping.returned = NoError

\* C30: pingDB always terminates; it makes at most 10 attempts, returns nil
\* at the first attempt that succeeds and makes no other, returns an error
\* and makes no other attempt once the select after a failed attempt finds
\* the context cancelled, and returns the last ping's error after the tenth
\* failed attempt.
C30_PingDBTerminates == []PingDBSafe /\ <>(ping.pc = "done")

\* Ten failed attempts, no signal: the error of the tenth ping.
C30_Witness ==
    /\ ping.pc = "done"
    /\ ~ping.cancelled
    /\ Len(ping.outcomes) = maxAttempts
    /\ ping.outcomes[maxAttempts] = DeadlineExceeded
    /\ ping.outcomes[1] = ConnectionRefused
    /\ ping.returned = <<"ping db", "context deadline exceeded">>

\* The signal came during the third wait: the error of the third ping, and
\* no fourth attempt.
C30_WitnessCancelled ==
    /\ ping.pc = "done"
    /\ ping.sawDone
    /\ Len(ping.outcomes) = 3
    /\ ping.returned = <<"ping db", "connection refused">>

\* The third attempt succeeds.
C30_WitnessSuccess ==
    /\ ping.pc = "done"
    /\ Len(ping.outcomes) = 3
    /\ ping.returned = NoError

====
